---- MODULE Spec2Model ----
(***************************************************************************)
(* A model of htmladapt: the id generator, the element matcher and the     *)
(* extract / merge engine of HTMLExtractMergeTool.                          *)
(*                                                                         *)
(* Strings (ids, tag names, text) are sequences of one-character strings,  *)
(* so that concatenation, strip, lower, split and substring search are     *)
(* computed as Python computes them.                                       *)
(*                                                                         *)
(* Similarity scores are exact fractions, kept as integers over the common *)
(* denominator Scale; the rounding of the float sums is not modelled.      *)
(* Two content hashes are equal exactly when the hashed tag name,          *)
(* attributes and text are equal.  match_elements is modelled twice: on a  *)
(* matcher whose hash cache is empty, as in one merge of a new tool, and   *)
(* with the cache keyed by id(element) threaded through every call         *)
(* (SpecCache).  merge is modelled as one step, with no resolver set, and  *)
(* stage by stage with the resolver's answers as inputs (SpecStages).      *)
(* IDGenerator is modelled from its specification and its callers, its     *)
(* module not being among the sources.                                     *)
(***************************************************************************)
EXTENDS Integers, Sequences, FiniteSets, TLC

VARIABLES
    gen,        \* IDGenerator state: [counter, used]
    returned,   \* history: one [id, before] per generate_id call, in call order
    registered, \* history: every id passed to register_existing_id
    calls,      \* history: number of generator calls made
    pc,         \* position of the running scenario
    similarity_threshold,   \* ElementMatcher.similarity_threshold, in units of 1/Scale
    fuzz,       \* whether the rapidfuzz import succeeded
    edited_elements,        \* match_elements argument
    original_elements,      \* match_elements argument; in SpecStale the live objects
    matches,    \* the record list match_elements returned
    original_html,  \* the document handed to extract, a tree
    superset,       \* the Full Copy extract returned
    subset,         \* the Subset extract returned, its flat elements in order
    edited_subset,  \* the Subset as edited
    edits,          \* history: the edits made to the Subset
    result,         \* the document merge returned
    content_cache,  \* ElementMatcher._content_cache: id(element) -> digest
    results,        \* history: one entry per match_elements or _get_content_hash call
    llm_use,        \* config.llm_use
    llm_reconciler, \* what self.llm_reconciler is: see Reconcilers
    llm_matches,    \* the list _apply_llm_resolution works on, in place
    unmatched_edits,      \* record indices of the edited-only records
    remaining_candidates, \* record indices of the baseline-only records on offer
    cursor,         \* position of the escalation loop in unmatched_edits
    offers,         \* history: one [edit, pool, response] per resolve_conflict call
    factory,        \* which constructor is called: the class or a profile factory
    kwargs,         \* the keyword arguments of the call
    config,         \* << >>, or <<c>> for the ProcessingConfig c the call returned
    raised,         \* the exception the last call raised, "" for none
    log,            \* history: one [op, id, pre, post] per call on the generator
    number,         \* the counter value handed to _to_base36
    rendered,       \* << >>, or <<s>> for the string s it returned
    stages,         \* history: the stages, or the splice turns, of one merge call
    unparseable,    \* the argument of merge no parser accepts, "" for none
    stage_soup,     \* the Full Copy tree as parsed, then spliced, then cleaned
    content,        \* the argument of validate_html: [kind, text]
    backend,        \* the parser backends validate_html finds: see Backends
    verdict         \* << >>, or <<r>> for the outcome r of validate_html

genVars == <<gen, returned, registered, calls>>
matchVars == <<similarity_threshold, fuzz, edited_elements, original_elements, matches>>
toolVars == <<original_html, superset, subset, edited_subset, edits, result>>
cacheVars == <<content_cache, results>>
escVars == <<llm_use, llm_reconciler, llm_matches, unmatched_edits,
             remaining_candidates, cursor, offers>>
cfgVars == <<factory, kwargs, config, raised>>
lifeVars == <<log>>
b36Vars == <<number, rendered>>
stageVars == <<stages, unparseable, stage_soup>>
valVars == <<content, backend, verdict>>
vars == <<gen, returned, registered, calls, pc, similarity_threshold, fuzz,
          edited_elements, original_elements, matches, original_html, superset,
          subset, edited_subset, edits, result, cacheVars, escVars, cfgVars,
          lifeVars, b36Vars, stageVars, valVars>>

\* the state of the parts an operation does not use
CacheIdle == content_cache = << >> /\ results = << >>

EscIdle ==
    /\ llm_use = FALSE
    /\ llm_reconciler = "unset"
    /\ llm_matches = << >>
    /\ unmatched_edits = << >>
    /\ remaining_candidates = << >>
    /\ cursor = 0
    /\ offers = << >>

CfgIdle ==
    /\ factory = "ProcessingConfig"
    /\ kwargs = << >>
    /\ config = << >>
    /\ raised = ""

LifeIdle == log = << >>

B36Idle == number = 0 /\ rendered = << >>

StageIdle == stages = << >> /\ unparseable = "" /\ stage_soup = << >>

ValIdle == content = << >> /\ backend = << >> /\ verdict = << >>

AuxIdleExcept(own) ==
    /\ IF "cache" \in own THEN TRUE ELSE CacheIdle
    /\ IF "esc" \in own THEN TRUE ELSE EscIdle
    /\ IF "cfg" \in own THEN TRUE ELSE CfgIdle
    /\ IF "life" \in own THEN TRUE ELSE LifeIdle
    /\ IF "b36" \in own THEN TRUE ELSE B36Idle
    /\ IF "stage" \in own THEN TRUE ELSE StageIdle
    /\ IF "val" \in own THEN TRUE ELSE ValIdle

AuxUnchangedExcept(own) ==
    /\ IF "cache" \in own THEN TRUE ELSE UNCHANGED cacheVars
    /\ IF "esc" \in own THEN TRUE ELSE UNCHANGED escVars
    /\ IF "cfg" \in own THEN TRUE ELSE UNCHANGED cfgVars
    /\ IF "life" \in own THEN TRUE ELSE UNCHANGED lifeVars
    /\ IF "b36" \in own THEN TRUE ELSE UNCHANGED b36Vars
    /\ IF "stage" \in own THEN TRUE ELSE UNCHANGED stageVars
    /\ IF "val" \in own THEN TRUE ELSE UNCHANGED valVars

\* ------------------------------------------------------------------ bounds

\* generate_id / register_existing_id calls per behaviour of SpecGen
MaxGenOps == 4

\* longest element list handed to match_elements in SpecMatch
MaxElems == 2

\* most children of the top element of a document handed to extract
MaxKids == 2

\* most edits made to the Subset between extract and merge
MaxEdits == 1

\* ----------------------------------------------------------------- strings

DIV == <<"d", "i", "v">>
SCRIPT == <<"s", "c", "r", "i", "p", "t">>
EMPTY == << >>
X == <<"x">>

\* ProcessingConfig.id_prefix, "auto_"
id_prefix == <<"a", "u", "t", "o", "_">>

StartsWith(s, p) == Len(s) >= Len(p) /\ SubSeq(s, 1, Len(p)) = p

\* ------------------------------------------------------------ id generator

Digits36 ==
    <<"0", "1", "2", "3", "4", "5", "6", "7", "8", "9", "a", "b", "c", "d",
      "e", "f", "g", "h", "i", "j", "k", "l", "m", "n", "o", "p", "q", "r",
      "s", "t", "u", "v", "w", "x", "y", "z">>

\* a rendering with the least significant digit first
RECURSIVE to_base36_lsd_first(_)
to_base36_lsd_first(n) ==
    IF n < Len(Digits36)
    THEN <<Digits36[n + 1]>>
    ELSE <<Digits36[(n % Len(Digits36)) + 1]>> \o to_base36_lsd_first(n \div Len(Digits36))

\* IDGenerator._to_base36: digits then lowercase letters, most significant first
RECURSIVE to_base36(_)
to_base36(n) ==
    IF n < Len(Digits36)
    THEN <<Digits36[n + 1]>>
    ELSE to_base36(n \div Len(Digits36)) \o <<Digits36[(n % Len(Digits36)) + 1]>>

\* the minted id for a counter value: <prefix><hint?>_<base36 counter>
candidate_id(hint, n) == id_prefix \o hint \o <<"_">> \o to_base36(n)

IDGenerator == [counter |-> 0, used |-> {}]

\* generate_id without the re-check of the candidate against the used ids
generate_id_unchecked(g, hint) ==
    LET c == g.counter + 1
    IN  [gen |-> [counter |-> c, used |-> g.used \cup {candidate_id(hint, c)}],
         id |-> candidate_id(hint, c)]

\* IDGenerator.generate_id: advance the counter until the candidate is unused
RECURSIVE generate_id(_, _)
generate_id(g, hint) ==
    LET c == g.counter + 1
        cand == candidate_id(hint, c)
    IN  IF cand \in g.used
        THEN generate_id([g EXCEPT !.counter = c], hint)
        ELSE [gen |-> [counter |-> c, used |-> g.used \cup {cand}], id |-> cand]

\* IDGenerator.register_existing_id: a no-op when the id is already used
register_existing_id(g, id) == [g EXCEPT !.used = @ \cup {id}]

\* a reset that zeroes the counter and keeps the used ids
reset_counter(g) == [g EXCEPT !.counter = 0]

\* IDGenerator.reset: the counter and the used ids as constructed
reset(g) == IDGenerator

\* IDGenerator.stats: a reading, the generator is not touched
stats(g) == [counter |-> g.counter, used_ids_count |-> Cardinality(g.used)]

\* --------------------------------------------------------- text primitives

Max(a, b) == IF a >= b THEN a ELSE b

\* str.strip()
RECURSIVE strip(_)
strip(s) ==
    IF s = << >> THEN s
    ELSE IF Head(s) = " " THEN strip(Tail(s))
    ELSE IF s[Len(s)] = " " THEN strip(SubSeq(s, 1, Len(s) - 1))
    ELSE s

\* str.split(): the maximal runs of non-whitespace characters
RECURSIVE split(_)
split(s) ==
    IF s = << >> THEN << >>
    ELSE IF Head(s) = " " THEN split(Tail(s))
    ELSE LET rest == split(Tail(s))
         IN  IF Len(s) > 1 /\ s[2] # " "
             THEN <<(<<Head(s)>> \o Head(rest))>> \o Tail(rest)
             ELSE <<(<<Head(s)>>)>> \o rest

\* " ".join(parts)
RECURSIVE join(_)
join(parts) ==
    IF parts = << >> THEN << >>
    ELSE IF Len(parts) = 1 THEN parts[1]
    ELSE parts[1] \o <<" ">> \o join(Tail(parts))

\* the capital letters the model uses, each with its lowercase form
Capitals == {<<"A", "a">>, <<"B", "b">>, <<"C", "c">>, <<"D", "d">>, <<"E", "e">>,
             <<"N", "n">>, <<"O", "o">>, <<"P", "p">>, <<"T", "t">>, <<"Y", "y">>,
             <<"H", "h">>, <<"L", "l">>, <<"M", "m">>}

\* str.lower() on the letters the model uses
lower(s) ==
    [i \in 1..Len(s) |->
        IF \E c \in Capitals : c[1] = s[i]
        THEN (CHOOSE c \in Capitals : c[1] = s[i])[2]
        ELSE s[i]]

\* needle in hay
Contains(hay, needle) ==
    \E i \in 0..(Len(hay) - Len(needle)) : SubSeq(hay, i + 1, i + Len(needle)) = needle

\* parts with the empty strings dropped
RECURSIVE NonEmpty(_)
NonEmpty(parts) ==
    IF parts = << >> THEN << >>
    ELSE IF Head(parts) = << >> THEN NonEmpty(Tail(parts))
    ELSE <<Head(parts)>> \o NonEmpty(Tail(parts))

\* length of the longest common subsequence (rapidfuzz's Indel distance)
RECURSIVE LCS(_, _)
LCS(a, b) ==
    IF a = << >> \/ b = << >> THEN 0
    ELSE IF Head(a) = Head(b) THEN 1 + LCS(Tail(a), Tail(b))
    ELSE Max(LCS(Tail(a), b), LCS(a, Tail(b)))

\* ---------------------------------------------------------------- elements
\* An element handed to the matcher is [tag, attrs, text]: attrs is the
\* attribute dict in insertion order, a sequence of <<name, value>> pairs, and
\* text is what get_text(separator=" ", strip=True) returns for it.

ID == <<"i", "d">>

HasAttr(e, name) == \E i \in 1..Len(e.attrs) : e.attrs[i][1] = name

\* element.get(name), with None read as the empty string (both are falsy)
GetAttr(e, name) ==
    IF HasAttr(e, name)
    THEN e.attrs[CHOOSE i \in 1..Len(e.attrs) : e.attrs[i][1] = name][2]
    ELSE EMPTY

AttrNames(e) == {e.attrs[i][1] : i \in 1..Len(e.attrs)}

\* ----------------------------------------------------------------- matcher

\* scores are exact fractions, in units of 1/Scale
Scale == 10 * 720720

ONE == Scale

\* the 0.95 of a content-hash match
HashMatchScore == (95 * Scale) \div 100

\* ElementMatcher._get_element_text
_get_element_text(e) == join(split(strip(e.text)))

\* ElementMatcher._id_similarity
_id_similarity(e1, e2) ==
    IF GetAttr(e1, ID) # EMPTY /\ GetAttr(e2, ID) # EMPTY /\ GetAttr(e1, ID) = GetAttr(e2, ID)
    THEN ONE ELSE 0

\* ElementMatcher._get_content_hash on an empty cache: the digest of
\* "<name>:<attrs>|<text>", equal exactly when the three parts are equal
_get_content_hash(e) == <<e.tag, e.attrs, _get_element_text(e)>>

\* ElementMatcher._hash_similarity
_hash_similarity(e1, e2) ==
    IF _get_content_hash(e1) = _get_content_hash(e2) THEN ONE ELSE 0

\* ElementMatcher._simple_text_similarity: Jaccard similarity of the word sets
_simple_text_similarity(e1, e2) ==
    LET text1 == _get_element_text(e1)
        text2 == _get_element_text(e2)
        words1 == {split(lower(text1))[i] : i \in 1..Len(split(lower(text1)))}
        words2 == {split(lower(text2))[i] : i \in 1..Len(split(lower(text2)))}
    IN  IF text1 = text2 THEN ONE
        ELSE IF text1 # << >> /\ text2 # << >>
        THEN IF words1 = {} /\ words2 = {} THEN ONE
             ELSE (Scale * Cardinality(words1 \cap words2))
                      \div Cardinality(words1 \cup words2)
        ELSE 0

\* ElementMatcher._text_similarity: fuzz.ratio / 100, or the fallback
_text_similarity(e1, e2, haveFuzz) ==
    LET text1 == _get_element_text(e1)
        text2 == _get_element_text(e2)
    IN  IF ~haveFuzz THEN _simple_text_similarity(e1, e2)
        ELSE IF text1 = << >> \/ text2 = << >> THEN 0
        ELSE (Scale * 2 * LCS(text1, text2)) \div (Len(text1) + Len(text2))

\* the attributes _structure_similarity compares: keys not starting with "id"
ComparableAttrs(e) ==
    {<<e.attrs[i][1], e.attrs[i][2]>> : i \in {j \in 1..Len(e.attrs) : ~StartsWith(e.attrs[j][1], ID)}}

\* ElementMatcher._structure_similarity
_structure_similarity(e1, e2) ==
    LET attrs1 == ComparableAttrs(e1)
        attrs2 == ComparableAttrs(e2)
        keys1 == {a[1] : a \in attrs1}
        keys2 == {a[1] : a \in attrs2}
    IN  IF e1.tag # e2.tag THEN 0
        ELSE IF attrs1 = attrs2 THEN ONE
        ELSE IF keys1 \cup keys2 = {} THEN ONE
        ELSE (Scale * Cardinality(keys1 \cap keys2)) \div Cardinality(keys1 \cup keys2)

\* a similarity whose third step is the text score alone
_calculate_similarity_text(e1, e2, haveFuzz) ==
    IF _id_similarity(e1, e2) = ONE THEN ONE
    ELSE IF _hash_similarity(e1, e2) = ONE THEN HashMatchScore
    ELSE _text_similarity(e1, e2, haveFuzz)

\* ElementMatcher._calculate_similarity (htmladapt.algorithms.matcher)
_calculate_similarity(e1, e2, haveFuzz) ==
    LET id_score == _id_similarity(e1, e2)
        hash_score == _hash_similarity(e1, e2)
    IN  IF id_score = ONE THEN ONE
        ELSE IF hash_score = ONE THEN HashMatchScore
        ELSE (4 * id_score + 3 * hash_score + 2 * _text_similarity(e1, e2, haveFuzz)
                  + _structure_similarity(e1, e2)) \div 10

\* the acceptance test without the threshold
AcceptsAnyScore(score, best_score, t) == score > best_score

\* the acceptance test of the inner loop of match_elements
Accepts(score, best_score, t) == score > best_score /\ score >= t

\* the inner loop of match_elements: scan original_elements[idx..] for the
\* best unclaimed candidate of edited_elem; best is [idx, score], idx 0 for None
RECURSIVE BestMatch(_, _, _, _, _, _, _)
BestMatch(edited_elem, originals, used, t, haveFuzz, idx, best) ==
    IF idx > Len(originals) THEN best
    ELSE IF idx \in used
    THEN BestMatch(edited_elem, originals, used, t, haveFuzz, idx + 1, best)
    ELSE LET score == _calculate_similarity(edited_elem, originals[idx], haveFuzz)
         IN  IF Accepts(score, best.score, t)
             THEN BestMatch(edited_elem, originals, used, t, haveFuzz, idx + 1,
                            [idx |-> idx, score |-> score])
             ELSE BestMatch(edited_elem, originals, used, t, haveFuzz, idx + 1, best)

\* the outer loop of match_elements: one record per edited element, in order;
\* a record is [e, o, conf] with e and o indices into the two lists, 0 for None
RECURSIVE MatchEdited(_, _, _, _, _, _, _)
MatchEdited(editeds, originals, t, haveFuzz, i, used, acc) ==
    IF i > Len(editeds) THEN [matches |-> acc, used |-> used]
    ELSE LET best == BestMatch(editeds[i], originals, used, t, haveFuzz, 1,
                               [idx |-> 0, score |-> 0])
         IN  IF best.idx # 0
             THEN MatchEdited(editeds, originals, t, haveFuzz, i + 1,
                              used \cup {best.idx},
                              Append(acc, [e |-> i, o |-> best.idx, conf |-> best.score]))
             ELSE MatchEdited(editeds, originals, t, haveFuzz, i + 1, used,
                              Append(acc, [e |-> i, o |-> 0, conf |-> 0]))

\* the closing loop of match_elements: the unclaimed originals, in order
RECURSIVE UnmatchedOriginals(_, _, _)
UnmatchedOriginals(n, used, idx) ==
    IF idx > n THEN << >>
    ELSE IF idx \in used THEN UnmatchedOriginals(n, used, idx + 1)
    ELSE <<[e |-> 0, o |-> idx, conf |-> 0]>> \o UnmatchedOriginals(n, used, idx + 1)

\* ElementMatcher.match_elements
match_elements(editeds, originals, t, haveFuzz) ==
    LET r == MatchEdited(editeds, originals, t, haveFuzz, 1, {}, << >>)
    IN  r.matches \o UnmatchedOriginals(Len(originals), r.used, 1)

\* ------------------------------------------------- the content-hash cache
\* ElementMatcher keeps _content_cache, a dict from id(element) to the digest
\* computed the first time that object was hashed.  An object is a record
\* [id, el]: its address and its content.  The operators below are the
\* matcher again with the cache threaded through every call, as the code
\* mutates it; each returns its value together with the cache it leaves.

\* a store that files only the text part of the digest
CacheStoreText(cache, element_id, content_hash) ==
    [k \in DOMAIN cache \cup {element_id} |->
        IF k = element_id THEN <<content_hash[3]>> ELSE cache[k]]

\* self._content_cache[element_id] = content_hash
CacheStore(cache, element_id, content_hash) ==
    [k \in DOMAIN cache \cup {element_id} |->
        IF k = element_id THEN content_hash ELSE cache[k]]

\* ElementMatcher._get_content_hash, with the lookup by id(element)
_get_content_hash_cached(cache, obj) ==
    IF obj.id \in DOMAIN cache
    THEN [hash |-> cache[obj.id], cache |-> cache]
    ELSE LET content_hash == _get_content_hash(obj.el)
         IN  [hash |-> content_hash,
              cache |-> CacheStore(cache, obj.id, content_hash)]

\* ElementMatcher._hash_similarity: hash1 first, then hash2
_hash_similarity_cached(cache, obj1, obj2) ==
    LET h1 == _get_content_hash_cached(cache, obj1)
        h2 == _get_content_hash_cached(h1.cache, obj2)
    IN  [score |-> IF h1.hash = h2.hash THEN ONE ELSE 0, cache |-> h2.cache]

\* ElementMatcher._calculate_similarity: a perfect id match returns before
\* any hash is taken
_calculate_similarity_cached(cache, obj1, obj2, haveFuzz) ==
    LET id_score == _id_similarity(obj1.el, obj2.el)
        hs == _hash_similarity_cached(cache, obj1, obj2)
    IN  IF id_score = ONE THEN [score |-> ONE, cache |-> cache]
        ELSE IF hs.score = ONE THEN [score |-> HashMatchScore, cache |-> hs.cache]
        ELSE [score |-> (4 * id_score + 3 * hs.score
                            + 2 * _text_similarity(obj1.el, obj2.el, haveFuzz)
                            + _structure_similarity(obj1.el, obj2.el)) \div 10,
              cache |-> hs.cache]

\* the inner loop of match_elements; best is [idx, score, cache]. The score
\* of a candidate and the best so far are bound by a set of one element, so
\* that each is worked out once.
RECURSIVE BestMatchCached(_, _, _, _, _, _, _)
BestMatchCached(edited_obj, originals, used, t, haveFuzz, idx, best) ==
    IF idx > Len(originals) THEN best
    ELSE IF idx \in used
    THEN BestMatchCached(edited_obj, originals, used, t, haveFuzz, idx + 1, best)
    ELSE CHOOSE found \in
             {BestMatchCached(edited_obj, originals, used, t, haveFuzz, idx + 1, b) :
                 b \in {IF Accepts(r.score, best.score, t)
                        THEN [idx |-> idx, score |-> r.score, cache |-> r.cache]
                        ELSE [best EXCEPT !.cache = r.cache] :
                           r \in {_calculate_similarity_cached(
                                      best.cache, edited_obj, originals[idx],
                                      haveFuzz)}}} : TRUE

\* the outer loop of match_elements
RECURSIVE MatchEditedCached(_, _, _, _, _, _, _, _)
MatchEditedCached(cache, editeds, originals, t, haveFuzz, i, used, acc) ==
    IF i > Len(editeds) THEN [matches |-> acc, used |-> used, cache |-> cache]
    ELSE CHOOSE done \in
             {IF best.idx # 0
              THEN MatchEditedCached(best.cache, editeds, originals, t, haveFuzz,
                                     i + 1, used \cup {best.idx},
                                     Append(acc, [e |-> i, o |-> best.idx,
                                                  conf |-> best.score]))
              ELSE MatchEditedCached(best.cache, editeds, originals, t, haveFuzz,
                                     i + 1, used,
                                     Append(acc, [e |-> i, o |-> 0, conf |-> 0])) :
                 best \in {BestMatchCached(editeds[i], originals, used, t, haveFuzz, 1,
                                           [idx |-> 0, score |-> 0, cache |-> cache])}} :
             TRUE

\* ElementMatcher.match_elements on a matcher whose cache is `cache`
match_elements_cached(cache, editeds, originals, t, haveFuzz) ==
    CHOOSE out \in
        {[matches |-> r.matches \o UnmatchedOriginals(Len(originals), r.used, 1),
          cache |-> r.cache] :
            r \in {MatchEditedCached(cache, editeds, originals, t, haveFuzz,
                                     1, {}, << >>)}} : TRUE

\* ElementMatcher.clear_cache
clear_cache(cache) == << >>

\* ---------------------------------------------------------------- SpecGen
\* One IDGenerator driven by an arbitrary interleaving of its two operations.

Hints == {EMPTY, DIV}

RegisterIds ==
    {X} \cup {candidate_id(h, n) : h \in Hints, n \in 1..MaxGenOps}

GenInit ==
    /\ gen = IDGenerator
    /\ returned = << >>
    /\ registered = {}
    /\ calls = 0
    /\ pc = "generator"
    /\ similarity_threshold = 0
    /\ fuzz = TRUE
    /\ edited_elements = << >>
    /\ original_elements = << >>
    /\ matches = << >>
    /\ original_html = << >>
    /\ superset = << >>
    /\ subset = << >>
    /\ edited_subset = << >>
    /\ edits = << >>
    /\ result = << >>
    /\ AuxIdleExcept({})

GenGenerate ==
    \E hint \in Hints :
        LET r == generate_id(gen, hint)
        IN  /\ calls < MaxGenOps
            /\ gen' = r.gen
            /\ returned' = Append(returned, [id |-> r.id, before |-> registered])
            /\ registered' = registered
            /\ calls' = calls + 1
            /\ pc' = pc
            /\ UNCHANGED <<matchVars, toolVars>>
            /\ AuxUnchangedExcept({})

GenRegister ==
    \E id \in RegisterIds :
        /\ calls < MaxGenOps
        /\ gen' = register_existing_id(gen, id)
        /\ registered' = registered \cup {id}
        /\ returned' = returned
        /\ calls' = calls + 1
        /\ pc' = pc
        /\ UNCHANGED <<matchVars, toolVars>>
        /\ AuxUnchangedExcept({})

GenNext == GenGenerate \/ GenRegister

SpecGen == GenInit /\ [][GenNext]_vars

\* ------------------------------------------------------------ SpecGenLife
\* The life of one IDGenerator: ids generated and registered, the generator
\* reset, its stats read, in any order.

\* ids a caller registers: an author's id and the first two candidates
LifeIds == {X, candidate_id(EMPTY, 1), candidate_id(EMPTY, 2)}

LifeInit ==
    /\ gen = IDGenerator
    /\ returned = << >>
    /\ registered = {}
    /\ calls = 0
    /\ pc = "generator"
    /\ similarity_threshold = 0
    /\ fuzz = TRUE
    /\ edited_elements = << >>
    /\ original_elements = << >>
    /\ matches = << >>
    /\ original_html = << >>
    /\ superset = << >>
    /\ subset = << >>
    /\ edited_subset = << >>
    /\ edits = << >>
    /\ result = << >>
    /\ AuxIdleExcept({"life"})
    /\ log = << >>

\* a call is logged with the generator before and after it
Logged(op, id, post) ==
    Append(log, [op |-> op, id |-> id, pre |-> gen, post |-> post])

\* what no call on the generator touches
LifeFrame ==
    /\ UNCHANGED <<returned, registered, calls, pc, matchVars, toolVars>>
    /\ AuxUnchangedExcept({"life"})

LifeGenerate ==
    \E hint \in Hints :
        /\ Len(log) < MaxGenOps
        /\ gen' = generate_id(gen, hint).gen
        /\ log' = Logged("generate_id", generate_id(gen, hint).id, gen')
        /\ LifeFrame

LifeRegister ==
    \E id \in LifeIds :
        /\ Len(log) < MaxGenOps
        /\ gen' = register_existing_id(gen, id)
        /\ log' = Logged("register_existing_id", id, gen')
        /\ LifeFrame

LifeReset ==
    /\ Len(log) < MaxGenOps
    /\ gen' = reset(gen)
    /\ log' = Logged("reset", EMPTY, gen')
    /\ LifeFrame

\* stats is read: all that a reading can leave behind is the generator
LifeStats ==
    /\ Len(log) < MaxGenOps
    /\ gen' = gen
    /\ log' = Logged("stats", EMPTY, gen')
    /\ LifeFrame

LifeNext == LifeGenerate \/ LifeRegister \/ LifeReset \/ LifeStats

SpecGenLife == LifeInit /\ [][LifeNext]_vars

\* ------------------------------------------------------------- SpecBase36
\* _to_base36 applied to one counter value.

\* the largest counter value rendered: the largest of two digits
MaxCounter == 1295

B36Init ==
    /\ gen = IDGenerator
    /\ returned = << >>
    /\ registered = {}
    /\ calls = 0
    /\ pc = "generator"
    /\ similarity_threshold = 0
    /\ fuzz = TRUE
    /\ edited_elements = << >>
    /\ original_elements = << >>
    /\ matches = << >>
    /\ original_html = << >>
    /\ superset = << >>
    /\ subset = << >>
    /\ edited_subset = << >>
    /\ edits = << >>
    /\ result = << >>
    /\ AuxIdleExcept({"b36"})
    /\ number \in 0..MaxCounter
    /\ rendered = << >>

\* rendered = generator._to_base36(number)
Render ==
    /\ rendered = << >>
    /\ rendered' = <<to_base36(number)>>
    /\ UNCHANGED <<genVars, pc, matchVars, toolVars, number>>
    /\ AuxUnchangedExcept({"b36"})

B36Next == Render

SpecBase36 == B36Init /\ [][B36Next]_vars

\* --------------------------------------------------------------- SpecMatch
\* One match_elements call of a fresh ElementMatcher on two element lists.

P == <<"p">>
A == <<"a">>
B == <<"b">>

\* similarity thresholds ProcessingConfig accepts: 0.0, 0.2, 0.3, 0.7, 0.95, 1.0
Thresholds ==
    {0, (2 * Scale) \div 10, (3 * Scale) \div 10, (7 * Scale) \div 10,
     HashMatchScore, ONE}

\* the elements of the lists: with and without an id, of equal and different
\* tag names and texts, so that pairs score 1.0, 0.95, 0.3, 0.2, 0.1 and 0.0
ElemPool ==
    {[tag |-> DIV, attrs |-> <<(<<ID, X>>)>>, text |-> A],
     [tag |-> DIV, attrs |-> << >>, text |-> A],
     [tag |-> DIV, attrs |-> << >>, text |-> B],
     [tag |-> P, attrs |-> << >>, text |-> A],
     [tag |-> P, attrs |-> <<(<<ID, X>>)>>, text |-> B]}

SeqsUpTo(S, n) == UNION {[1..k -> S] : k \in 0..n}

MatchInit ==
    /\ gen = IDGenerator
    /\ returned = << >>
    /\ registered = {}
    /\ calls = 0
    /\ pc = "ready"
    /\ similarity_threshold \in Thresholds
    /\ fuzz \in BOOLEAN
    /\ edited_elements \in SeqsUpTo(ElemPool, MaxElems)
    /\ original_elements \in SeqsUpTo(ElemPool, MaxElems)
    /\ matches = << >>
    /\ original_html = << >>
    /\ superset = << >>
    /\ subset = << >>
    /\ edited_subset = << >>
    /\ edits = << >>
    /\ result = << >>
    /\ AuxIdleExcept({})

MatchRun ==
    /\ pc = "ready"
    /\ matches' = match_elements(edited_elements, original_elements,
                                 similarity_threshold, fuzz)
    /\ pc' = "matched"
    /\ UNCHANGED <<genVars, toolVars, similarity_threshold, fuzz, edited_elements,
                   original_elements>>
    /\ AuxUnchangedExcept({})

MatchNext == MatchRun

SpecMatch == MatchInit /\ [][MatchNext]_vars

\* -------------------------------------------------------------- SpecCache
\* One ElementMatcher called repeatedly on the same two lists of objects.
\* Its cache may start with an entry left by an object that has since been
\* freed and whose address id() has handed out again.

MaxCalls == 2

CacheThresholds == {(2 * Scale) \div 10, HashMatchScore}

CachePool ==
    {[tag |-> DIV, attrs |-> << >>, text |-> A],
     [tag |-> P, attrs |-> << >>, text |-> A],
     [tag |-> DIV, attrs |-> <<(<<ID, X>>)>>, text |-> A]}

\* the objects of a list: the element at position i lives at address base + i
Objects(elements, base) ==
    [i \in 1..Len(elements) |-> [id |-> base + i, el |-> elements[i]]]

\* the caches a matcher can hold before the call: empty, or one entry of an
\* earlier object at one of the addresses now in use
StaleCaches(n) ==
    {<< >>} \cup {CacheStore(<< >>, a, _get_content_hash(e)) :
                     a \in 1..n, e \in CachePool}

CacheInit ==
    /\ gen = IDGenerator
    /\ returned = << >>
    /\ registered = {}
    /\ calls = 0
    /\ pc = "ready"
    /\ similarity_threshold \in CacheThresholds
    /\ fuzz = TRUE
    /\ edited_elements \in SeqsUpTo(CachePool, MaxElems)
    /\ original_elements \in SeqsUpTo(CachePool, MaxElems)
    /\ matches = << >>
    /\ original_html = << >>
    /\ superset = << >>
    /\ subset = << >>
    /\ edited_subset = << >>
    /\ edits = << >>
    /\ result = << >>
    /\ AuxIdleExcept({"cache"})
    /\ content_cache \in StaleCaches(Len(edited_elements) + Len(original_elements))
    /\ results = << >>

\* matcher.match_elements(edited_elements, original_elements)
CacheCall ==
    /\ Len(results) < MaxCalls
    /\ \E r \in {match_elements_cached(content_cache,
                    Objects(edited_elements, 0),
                    Objects(original_elements, Len(edited_elements)),
                    similarity_threshold, fuzz)} :
           /\ matches' = r.matches
           /\ content_cache' = r.cache
           /\ results' = Append(results, [matches |-> r.matches,
                                          after_clear |-> pc = "cleared"])
    /\ pc' = "called"
    /\ UNCHANGED <<genVars, toolVars, similarity_threshold, fuzz, edited_elements,
                   original_elements>>
    /\ AuxUnchangedExcept({"cache"})

\* matcher.clear_cache()
CacheClear ==
    /\ Len(results) < MaxCalls
    /\ content_cache # << >>
    /\ content_cache' = clear_cache(content_cache)
    /\ pc' = "cleared"
    /\ UNCHANGED <<genVars, matchVars, toolVars, results>>
    /\ AuxUnchangedExcept({"cache"})

CacheNext == CacheCall \/ CacheClear

SpecCache == CacheInit /\ [][CacheNext]_vars

\* ------------------------------------------------------------- escalation
\* HTMLExtractMergeTool._apply_llm_resolution: the records the matcher left
\* unmatched are put to the conflict resolver, one edited-only record at a
\* time.  The resolver is any object handed to the tool; what it answers is
\* not the tool's to decide, so an answer is an input of the step.

\* what self.llm_reconciler can be
Reconcilers ==
    {"unset", "unavailable", "is_available raises", "available", "no is_available"}

\* an entry test that goes ahead with any resolver that is set
escalates_unchecked(use, reconciler) == use /\ reconciler # "unset"

\* the entry tests of _apply_llm_resolution: the flag, the resolver, and
\* is_available() where the resolver has one
escalates(use, reconciler) ==
    use /\ reconciler \in {"available", "no is_available"}

\* the indices of the records of one kind, in record order
RECURSIVE RecordIndices(_, _, _)
RecordIndices(ms, edited_only, i) ==
    IF i > Len(ms) THEN << >>
    ELSE IF edited_only /\ ms[i].e # 0 /\ ms[i].o = 0
    THEN <<i>> \o RecordIndices(ms, edited_only, i + 1)
    ELSE IF ~edited_only /\ ms[i].e = 0 /\ ms[i].o # 0
    THEN <<i>> \o RecordIndices(ms, edited_only, i + 1)
    ELSE RecordIndices(ms, edited_only, i + 1)

\* list.pop(k), k counted from 0
pop(seq, k) == SubSeq(seq, 1, k) \o SubSeq(seq, k + 2, Len(seq))

\* a confidence test that lets every answer through
confident_always(confidence, t) == TRUE

\* not (confidence < self.config.simi_level)
confident(confidence, t) == confidence >= t

\* 0 <= best_index < len(remaining_candidates)
in_pool(best_index, n) == 0 <= best_index /\ best_index < n

\* one turn of the escalation loop for the record at match_index. A response
\* is [kind, none, best_index, confidence]: the resolver raised, returned
\* something the tool cannot read (no dict, or a confidence float() rejects),
\* or returned a dict whose best_match_index is None or best_index.
resolve_one(ms, remaining, match_index, response, t) ==
    IF response.kind = "raises"
    THEN [matches |-> ms, remaining |-> remaining, outcome |-> "continue"]
    ELSE IF response.kind = "malformed"
    THEN [matches |-> ms, remaining |-> remaining, outcome |-> "raise"]
    ELSE IF response.none \/ ~confident(response.confidence, t)
    THEN [matches |-> ms, remaining |-> remaining, outcome |-> "continue"]
    ELSE IF ~in_pool(response.best_index, Len(remaining))
    THEN [matches |-> ms, remaining |-> remaining, outcome |-> "continue"]
    ELSE LET claimed == remaining[response.best_index + 1]
         IN  [matches |-> [ms EXCEPT ![match_index] =
                              [e |-> ms[match_index].e, o |-> ms[claimed].o,
                               conf |-> response.confidence]],
              remaining |-> pop(remaining, response.best_index),
              outcome |-> "continue"]

\* ----------------------------------------------------------- SpecEscalate
\* The matcher runs on two lists, then the escalation runs on its records.

EscThreshold == (7 * Scale) \div 10

\* confidences a resolver reports: just under the threshold, and on it
Confidences == {(69 * Scale) \div 100, EscThreshold}

Responses ==
    {[kind |-> "raises", none |-> TRUE, best_index |-> 0, confidence |-> 0],
     [kind |-> "malformed", none |-> TRUE, best_index |-> 0, confidence |-> 0],
     [kind |-> "dict", none |-> TRUE, best_index |-> 0, confidence |-> EscThreshold]}
    \cup {[kind |-> "dict", none |-> FALSE, best_index |-> i, confidence |-> c] :
             i \in 0..(MaxElems - 1), c \in Confidences}
    \cup {[kind |-> "dict", none |-> FALSE, best_index |-> i,
           confidence |-> EscThreshold] : i \in {-1, MaxElems}}

EscPool ==
    {[tag |-> DIV, attrs |-> << >>, text |-> A],
     [tag |-> P, attrs |-> << >>, text |-> A],
     [tag |-> P, attrs |-> << >>, text |-> B]}

EscInit ==
    /\ gen = IDGenerator
    /\ returned = << >>
    /\ registered = {}
    /\ calls = 0
    /\ pc = "ready"
    /\ similarity_threshold = EscThreshold
    /\ fuzz = TRUE
    /\ edited_elements \in SeqsUpTo(EscPool, MaxElems)
    /\ original_elements \in SeqsUpTo(EscPool, MaxElems)
    /\ matches = << >>
    /\ original_html = << >>
    /\ superset = << >>
    /\ subset = << >>
    /\ edited_subset = << >>
    /\ edits = << >>
    /\ result = << >>
    /\ AuxIdleExcept({"esc"})
    /\ llm_use \in BOOLEAN
    /\ llm_reconciler \in Reconcilers
    /\ llm_matches = << >>
    /\ unmatched_edits = << >>
    /\ remaining_candidates = << >>
    /\ cursor = 0
    /\ offers = << >>

\* matches = self._match_comp_elements(...)
EscMatch ==
    /\ pc = "ready"
    /\ matches' = match_elements(edited_elements, original_elements,
                                 similarity_threshold, fuzz)
    /\ llm_matches' = matches'
    /\ pc' = "matched"
    /\ UNCHANGED <<genVars, toolVars, similarity_threshold, fuzz, edited_elements,
                   original_elements, llm_use, llm_reconciler, unmatched_edits,
                   remaining_candidates, cursor, offers>>
    /\ AuxUnchangedExcept({"esc"})

\* _apply_llm_resolution up to the loop: the entry tests and the two lists
EscBegin ==
    /\ pc = "matched"
    /\ LET ue == RecordIndices(llm_matches, TRUE, 1)
           uo == RecordIndices(llm_matches, FALSE, 1)
       IN  IF escalates(llm_use, llm_reconciler) /\ ue # << >> /\ uo # << >>
           THEN /\ unmatched_edits' = ue
                /\ remaining_candidates' = uo
                /\ cursor' = 1
                /\ pc' = "resolving"
           ELSE /\ pc' = "returned"
                /\ UNCHANGED <<unmatched_edits, remaining_candidates, cursor>>
    /\ UNCHANGED <<genVars, matchVars, toolVars, llm_use, llm_reconciler,
                   llm_matches, offers>>
    /\ AuxUnchangedExcept({"esc"})

\* one turn of the loop: resolve_conflict answers, the tool acts on the answer
EscResolve ==
    \E response \in Responses :
        /\ pc = "resolving"
        /\ cursor <= Len(unmatched_edits)
        /\ LET r == resolve_one(llm_matches, remaining_candidates,
                                unmatched_edits[cursor], response,
                                similarity_threshold)
           IN  /\ llm_matches' = r.matches
               /\ remaining_candidates' = r.remaining
               /\ pc' = IF r.outcome = "raise" THEN "raised" ELSE "resolving"
        /\ offers' = Append(offers, [edit |-> unmatched_edits[cursor],
                                     pool |-> remaining_candidates,
                                     response |-> response])
        /\ cursor' = cursor + 1
        /\ UNCHANGED <<genVars, matchVars, toolVars, llm_use, llm_reconciler,
                       unmatched_edits>>
        /\ AuxUnchangedExcept({"esc"})

\* return matches
EscReturn ==
    /\ pc = "resolving"
    /\ cursor > Len(unmatched_edits)
    /\ pc' = "returned"
    /\ UNCHANGED <<genVars, matchVars, toolVars, escVars>>
    /\ AuxUnchangedExcept({"esc"})

EscNext == EscMatch \/ EscBegin \/ EscResolve \/ EscReturn

SpecEscalate == EscInit /\ [][EscNext]_vars

\* ---------------------------------------------------------- configuration
\* ProcessingConfig (htmladapt.core.config): a dataclass whose __post_init__
\* validates three fields, and three factories that lay caller overrides
\* over a profile's defaults before constructing.  A set of keyword
\* arguments is a function from field names to values; thresholds are on
\* the matcher's integer scale.

\* the dataclass field defaults
FieldDefaults ==
    [id_prefix |-> id_prefix,
     similarity_threshold |-> (7 * Scale) \div 10,
     enable_llm_resolution |-> FALSE,
     max_context_tokens |-> 1000,
     performance_profile |-> "balanced",
     memory_limit_mb |-> 512]

\* defaults.update(kwargs), turned round: the defaults win
update_keep(defaults, kw) ==
    [k \in DOMAIN defaults \cup DOMAIN kw |->
        IF k \in DOMAIN defaults THEN defaults[k] ELSE kw[k]]

\* defaults.update(kwargs)
update(defaults, kw) ==
    [k \in DOMAIN defaults \cup DOMAIN kw |->
        IF k \in DOMAIN kw THEN kw[k] ELSE defaults[k]]

\* ProcessingConfig.__post_init__: the exception it raises, "" for none
__post_init__(self) ==
    IF ~(0 <= self.similarity_threshold /\ self.similarity_threshold <= ONE)
    THEN "ValueError"
    ELSE IF self.max_context_tokens < 100 THEN "ValueError"
    ELSE IF self.memory_limit_mb < 1 THEN "ValueError"
    ELSE ""

\* ProcessingConfig(**kw): the generated __init__ fills the fields, then
\* __post_init__ runs; an exception leaves the caller without an object
ProcessingConfig(kw) ==
    LET self == update(FieldDefaults, kw)
    IN  IF __post_init__(self) = ""
        THEN [config |-> <<self>>, raised |-> ""]
        ELSE [config |-> << >>, raised |-> __post_init__(self)]

\* ProcessingConfig.fast_profile
fast_profile(kw) ==
    ProcessingConfig(update([performance_profile |-> "fast",
                             similarity_threshold |-> (8 * Scale) \div 10,
                             enable_llm_resolution |-> FALSE], kw))

\* ProcessingConfig.accurate_profile
accurate_profile(kw) ==
    ProcessingConfig(update([performance_profile |-> "accurate",
                             similarity_threshold |-> (6 * Scale) \div 10,
                             enable_llm_resolution |-> TRUE], kw))

\* ProcessingConfig.balanced_profile
balanced_profile(kw) ==
    ProcessingConfig(update([performance_profile |-> "balanced",
                             similarity_threshold |-> (7 * Scale) \div 10,
                             enable_llm_resolution |-> FALSE], kw))

\* ------------------------------------------------------------- SpecConfig
\* One construction, by the class or by a factory, with keyword arguments on
\* and on either side of every limit.

Factories == {"ProcessingConfig", "fast_profile", "accurate_profile", "balanced_profile"}

\* the fields a caller sets, and the values passed for them
Fields ==
    {"similarity_threshold", "max_context_tokens", "memory_limit_mb",
     "enable_llm_resolution"}
ThresholdArgs == {-1, 0, (5 * Scale) \div 10, ONE, ONE + 1}
TokenArgs == {99, 100, 101}
MemoryArgs == {0, 1, 2}
LlmArgs == {TRUE, FALSE}

\* the keyword arguments that set the fields `given`
KwargsOf(given, t, n, m, l) ==
    [k \in given |->
        IF k = "similarity_threshold" THEN t
        ELSE IF k = "max_context_tokens" THEN n
        ELSE IF k = "memory_limit_mb" THEN m
        ELSE l]

\* the state of the matcher, the generator and the tool while none is in use
CoreIdle ==
    /\ gen = IDGenerator
    /\ returned = << >>
    /\ registered = {}
    /\ calls = 0
    /\ similarity_threshold = 0
    /\ fuzz = FALSE
    /\ edited_elements = << >>
    /\ original_elements = << >>
    /\ matches = << >>
    /\ original_html = << >>
    /\ superset = << >>
    /\ subset = << >>
    /\ edited_subset = << >>
    /\ edits = << >>
    /\ result = << >>

CfgInit ==
    /\ CoreIdle
    /\ AuxIdleExcept({"cfg"})
    /\ pc = "ready"
    /\ factory \in Factories
    /\ \E given \in SUBSET Fields, t \in ThresholdArgs, n \in TokenArgs,
          m \in MemoryArgs, l \in LlmArgs :
           kwargs = KwargsOf(given, t, n, m, l)
    /\ config = << >>
    /\ raised = ""

\* config = ProcessingConfig(**kwargs), or one of the factories
Construct ==
    /\ pc = "ready"
    /\ LET r == IF factory = "fast_profile" THEN fast_profile(kwargs)
                ELSE IF factory = "accurate_profile" THEN accurate_profile(kwargs)
                ELSE IF factory = "balanced_profile" THEN balanced_profile(kwargs)
                ELSE ProcessingConfig(kwargs)
       IN  /\ config' = r.config
           /\ raised' = r.raised
    /\ pc' = "constructed"
    /\ UNCHANGED <<genVars, matchVars, toolVars, factory, kwargs>>
    /\ AuxUnchangedExcept({"cfg"})

CfgNext == Construct

SpecConfig == CfgInit /\ [][CfgNext]_vars

\* ---------------------------------------------------------------- documents
\* A parsed document is a tree of nodes. A node is a Tag ("elem"), a
\* NavigableString ("text") or a Comment ("comment"); h numbers the Tags of the
\* document handed to extract in document order, and stays with the Tag through
\* clone, serialisation and parse, so that a Tag of the output can be compared
\* with the Tag of the input it came from.

BODY == <<"b", "o", "d", "y">>
HTML == <<"h", "t", "m", "l">>
SPACE == <<" ">>
NOTE == <<"n">>

NavigableString(s) ==
    [k |-> "text", h |-> 0, tag |-> EMPTY, attrs |-> << >>, s |-> s, kids |-> << >>]

Comment(s) ==
    [k |-> "comment", h |-> 0, tag |-> EMPTY, attrs |-> << >>, s |-> s, kids |-> << >>]

Tag(tag, attrs, kids) ==
    [k |-> "elem", h |-> 0, tag |-> tag, attrs |-> attrs, s |-> EMPTY, kids |-> kids]

IsTag(n) == n.k = "elem"

\* hasattr(content, "strip") and callable(content.strip): every NavigableString,
\* a Comment included
IsString(n) == n.k # "elem"

RECURSIVE Flatten(_)
Flatten(seqs) ==
    IF seqs = << >> THEN << >> ELSE Head(seqs) \o Flatten(Tail(seqs))

\* soup.find_all(): the Tags in document order
RECURSIVE find_all(_)
find_all(n) ==
    IF ~IsTag(n) THEN << >>
    ELSE <<n>> \o Flatten([i \in 1..Len(n.kids) |-> find_all(n.kids[i])])

Handles(n) == {find_all(n)[i].h : i \in 1..Len(find_all(n))}

TagAt(n, h) ==
    LET all == find_all(n) IN all[CHOOSE i \in 1..Len(all) : all[i].h = h]

RECURSIVE TagsBefore(_, _)
TagsBefore(kids, i) ==
    IF i <= 1 THEN 0 ELSE TagsBefore(kids, i - 1) + Len(find_all(kids[i - 1]))

\* number the Tags of a document in document order, starting at next
RECURSIVE Numbered(_, _)
Numbered(n, next) ==
    IF ~IsTag(n) THEN n
    ELSE [n EXCEPT !.h = next,
                   !.kids = [i \in 1..Len(n.kids) |->
                                Numbered(n.kids[i], next + 1 + TagsBefore(n.kids, i))]]

\* the tree with the Tag numbered h replaced by new
RECURSIVE ReplaceAt(_, _, _)
ReplaceAt(n, h, new) ==
    IF ~IsTag(n) THEN n
    ELSE IF n.h = h THEN new
    ELSE [n EXCEPT !.kids = [i \in 1..Len(n.kids) |-> ReplaceAt(n.kids[i], h, new)]]

\* element[name] = value: a present key keeps its place, a new key goes last
SetAttr(e, name, value) ==
    IF HasAttr(e, name)
    THEN [e EXCEPT !.attrs = [i \in 1..Len(e.attrs) |->
                                 IF e.attrs[i][1] = name THEN <<name, value>>
                                 ELSE e.attrs[i]]]
    ELSE [e EXCEPT !.attrs = Append(e.attrs, <<name, value>>)]

\* del element[name]
RECURSIVE WithoutAttr(_, _)
WithoutAttr(attrs, name) ==
    IF attrs = << >> THEN << >>
    ELSE IF Head(attrs)[1] = name THEN WithoutAttr(Tail(attrs), name)
    ELSE <<Head(attrs)>> \o WithoutAttr(Tail(attrs), name)

DelAttr(e, name) == [e EXCEPT !.attrs = WithoutAttr(e.attrs, name)]

\* the strings get_text walks: the NavigableStrings below n of the string type
\* the Tag asks for. The strings of a script are Script strings, which only a
\* script's own get_text returns; a Comment is never returned.
RECURSIVE _all_strings(_, _)
_all_strings(n, wantScript) ==
    Flatten([i \in 1..Len(n.kids) |->
        LET c == n.kids[i]
        IN  IF IsTag(c) THEN _all_strings(c, wantScript)
            ELSE IF c.k = "text" /\ ((n.tag = SCRIPT) <=> wantScript) THEN <<c.s>>
            ELSE << >>])

\* element.get_text(separator=" ", strip=True)
get_text(n) ==
    LET strings == _all_strings(n, n.tag = SCRIPT)
    IN  join(NonEmpty([i \in 1..Len(strings) |-> strip(strings[i])]))

\* ------------------------------------------------------------------ extract

STYLE == <<"s", "t", "y", "l", "e">>
META == <<"m", "e", "t", "a">>
LINK == <<"l", "i", "n", "k">>
HEAD == <<"h", "e", "a", "d">>
TITLE == <<"t", "i", "t", "l", "e">>

NonTranslatable == {SCRIPT, STYLE, META, LINK, HEAD, TITLE}

\* HTMLExtractMergeTool._is_text_containing_element: a translatable Tag with a
\* direct string that is not all whitespace
_is_text_containing_element(e) ==
    /\ IsTag(e)
    /\ e.tag \notin NonTranslatable
    /\ \E i \in 1..Len(e.kids) : IsString(e.kids[i]) /\ strip(e.kids[i].s) # EMPTY

_is_translatable_element(e) == _is_text_containing_element(e)

\* HTMLExtractMergeTool._extract_text_content: the stripped direct strings and
\* the get_text of the child Tags, the empty ones dropped, joined by a space
_extract_text_content(e) ==
    join(NonEmpty([i \in 1..Len(e.kids) |->
        IF IsString(e.kids[i]) THEN strip(e.kids[i].s) ELSE get_text(e.kids[i])]))

\* IDGenerator.is_generated_id: the id has the minted shape, the prefix, a hint
\* of tag-name characters, an underscore and a base-36 counter from 1
IsCounter(s) ==
    /\ s # EMPTY
    /\ s[1] # "0"
    /\ \A i \in 1..Len(s) : \E d \in 1..Len(Digits36) : s[i] = Digits36[d]

IsHint(s) == \A i \in 1..Len(s) : \E d \in 1..Len(Digits36) : s[i] = Digits36[d]

is_generated_id(id) ==
    /\ StartsWith(id, id_prefix)
    /\ LET rest == SubSeq(id, Len(id_prefix) + 1, Len(id))
       IN  \E i \in 1..Len(rest) :
               /\ rest[i] = "_"
               /\ IsHint(SubSeq(rest, 1, i - 1))
               /\ IsCounter(SubSeq(rest, i + 1, Len(rest)))

\* HTMLExtractMergeTool._register_existing_ids: every Tag with an id attribute,
\* an empty one included, has its id registered
RECURSIVE _register_existing_ids(_, _)
_register_existing_ids(elements, g) ==
    IF elements = << >> THEN g
    ELSE _register_existing_ids(
             Tail(elements),
             IF HasAttr(Head(elements), ID)
             THEN register_existing_id(g, GetAttr(Head(elements), ID))
             ELSE g)

\* the minting step with its test for a present id left out
NeedsIdAlways(e) == _is_text_containing_element(e)

\* _create_superset's test: a text-bearing element whose id is absent or empty
NeedsId(e) == _is_text_containing_element(e) /\ GetAttr(e, ID) = EMPTY

\* HTMLExtractMergeTool._create_superset: walk the Tags of the clone in document
\* order and mint an id for each that needs one; ids lists what was minted
RECURSIVE _create_superset(_, _, _, _)
_create_superset(soup, g, i, ids) ==
    LET elements == find_all(soup)
        element == elements[i]
        r == generate_id(g, element.tag)
    IN  IF i > Len(elements) THEN [soup |-> soup, gen |-> g, ids |-> ids]
        ELSE IF NeedsId(element)
             THEN _create_superset(
                      ReplaceAt(soup, element.h, SetAttr(element, ID, r.id)),
                      r.gen, i + 1, Append(ids, r.id))
             ELSE _create_superset(soup, g, i + 1, ids)

\* HTMLExtractMergeTool._create_subset: one flat element per translatable Tag,
\* in document order, with the Tag's name, its id when not empty, and its
\* extracted text as the only content
RECURSIVE _create_subset(_)
_create_subset(elements) ==
    IF elements = << >> THEN << >>
    ELSE LET element == Head(elements)
         IN  IF _is_translatable_element(element)
             THEN <<[tag |-> element.tag,
                     attrs |-> IF GetAttr(element, ID) # EMPTY
                               THEN <<(<<ID, GetAttr(element, ID)>>)>> ELSE << >>,
                     text |-> _extract_text_content(element),
                     h |-> element.h]>> \o _create_subset(Tail(elements))
             ELSE _create_subset(Tail(elements))

\* str(soup) read back by parser.parse: adjacent strings become one string
RECURSIVE MergeStrings(_)
MergeStrings(kids) ==
    IF Len(kids) < 2 THEN kids
    ELSE IF kids[1].k = "text" /\ kids[2].k = "text"
         THEN MergeStrings(<<NavigableString(kids[1].s \o kids[2].s)>> \o SubSeq(kids, 3, Len(kids)))
         ELSE <<kids[1]>> \o MergeStrings(Tail(kids))

RECURSIVE parse(_)
parse(n) ==
    IF ~IsTag(n) THEN n
    ELSE LET merged == MergeStrings(n.kids)
         IN  [n EXCEPT !.kids = [i \in 1..Len(merged) |-> parse(merged[i])]]

\* HTMLParser.clone_soup: the document serialised and parsed again
clone_soup(soup) == parse(soup)

\* -------------------------------------------------------------------- merge

\* the Tags find_all returns for a parsed Subset: the html and body wrappers,
\* whose text is the text of everything below them, then the flat elements
SubsetElements(flats) ==
    LET whole == join(NonEmpty([i \in 1..Len(flats) |-> strip(flats[i].text)]))
    IN  <<[tag |-> HTML, attrs |-> << >>, text |-> whole, h |-> 0],
          [tag |-> BODY, attrs |-> << >>, text |-> whole, h |-> 0]>> \o flats

\* _extract_text_content of a Tag of a parsed Subset
SubsetText(e) == strip(e.text)

\* HTMLExtractMergeTool._match_comp_elements
_match_comp_elements(edited, original, t, haveFuzz) ==
    match_elements(SubsetElements(edited), SubsetElements(original), t, haveFuzz)

\* the key a record is filed under: the baseline element's id, else the edited
\* element's id, else none
LookupId(rec, E, O) ==
    IF rec.o # 0 /\ GetAttr(O[rec.o], ID) # EMPTY THEN GetAttr(O[rec.o], ID)
    ELSE IF rec.e # 0 /\ GetAttr(E[rec.e], ID) # EMPTY THEN GetAttr(E[rec.e], ID)
    ELSE EMPTY

\* the match_by_id dict: a later record replaces an earlier one under its key
match_by_id(ms, E, O) ==
    [id \in {LookupId(ms[i], E, O) : i \in 1..Len(ms)} \ {EMPTY} |->
        ms[CHOOSE i \in 1..Len(ms) :
               /\ LookupId(ms[i], E, O) = id
               /\ \A j \in (i + 1)..Len(ms) : LookupId(ms[j], E, O) # id]]

\* full_soup.find(attrs={"id": id}): the first Tag in document order, 0 if none
find(soup, id) ==
    LET all == find_all(soup)
    IN  IF \E i \in 1..Len(all) : GetAttr(all[i], ID) = id
        THEN all[CHOOSE i \in 1..Len(all) :
                     /\ GetAttr(all[i], ID) = id
                     /\ \A j \in 1..(i - 1) : GetAttr(all[j], ID) # id].h
        ELSE 0

\* whether the splice keeps a direct child Tag of the spliced element: a child
\* with an id is dropped when no record is filed under its id or the record
\* has no edited side, and when it is unchanged and its text is not in new_text
KeepsChild(child, new_text, byId, E) ==
    IF GetAttr(child, ID) = EMPTY THEN TRUE
    ELSE LET child_id == GetAttr(child, ID)
             child_text == _extract_text_content(child)
             edited_child == IF child_id \in DOMAIN byId THEN byId[child_id].e ELSE 0
             child_removed_in_subset == edited_child = 0
             child_changed ==
                 edited_child # 0 /\ SubsetText(E[edited_child]) # child_text
         IN  /\ ~child_removed_in_subset
             /\ ~(/\ ~child_changed
                  /\ lower(child_text) # EMPTY
                  /\ ~Contains(lower(new_text), lower(child_text)))

RECURSIVE KeptKids(_, _, _, _)
KeptKids(kids, new_text, byId, E) ==
    IF kids = << >> THEN << >>
    ELSE IF IsString(Head(kids)) THEN KeptKids(Tail(kids), new_text, byId, E)
    ELSE IF KeepsChild(Head(kids), new_text, byId, E)
         THEN <<Head(kids)>> \o KeptKids(Tail(kids), new_text, byId, E)
         ELSE KeptKids(Tail(kids), new_text, byId, E)

\* a splice that puts new_text in after the children it keeps
SplicedLast(full_elem, new_text, byId, E) ==
    [full_elem EXCEPT
        !.kids = KeptKids(@, new_text, byId, E) \o <<NavigableString(new_text)>>]

\* the splice of one element: children dropped, every direct string taken out,
\* new_text put in as the first child
Spliced(full_elem, new_text, byId, E) ==
    [full_elem EXCEPT
        !.kids = <<NavigableString(new_text)>> \o KeptKids(@, new_text, byId, E)]

\* one turn of the loop of _apply_changes_to_superset
ApplyRecord(soup, rec, byId, E, O, t) ==
    IF rec.e # 0 /\ rec.o # 0 /\ rec.conf >= t
    THEN LET element_id == GetAttr(O[rec.o], ID)
             h == find(soup, element_id)
             new_text == SubsetText(E[rec.e])
         IN  IF element_id # EMPTY /\ h # 0 /\ new_text # EMPTY
             THEN ReplaceAt(soup, h, Spliced(TagAt(soup, h), new_text, byId, E))
             ELSE soup
    ELSE soup

\* HTMLExtractMergeTool._apply_changes_to_superset
RECURSIVE ApplyRecords(_, _, _, _, _, _, _)
ApplyRecords(soup, ms, i, byId, E, O, t) ==
    IF i > Len(ms) THEN soup
    ELSE ApplyRecords(ApplyRecord(soup, ms[i], byId, E, O, t), ms, i + 1, byId, E, O, t)

_apply_changes_to_superset(ms, full_soup, E, O, t) ==
    ApplyRecords(full_soup, ms, 1, match_by_id(ms, E, O), E, O, t)

\* HTMLExtractMergeTool._cleanup_generated_ids
RECURSIVE _cleanup_generated_ids(_)
_cleanup_generated_ids(n) ==
    IF ~IsTag(n) THEN n
    ELSE LET cleaned ==
                 IF HasAttr(n, ID) /\ is_generated_id(GetAttr(n, ID))
                 THEN DelAttr(n, ID) ELSE n
         IN  [cleaned EXCEPT
                 !.kids = [i \in 1..Len(n.kids) |-> _cleanup_generated_ids(n.kids[i])]]

\* a merge that splices into the parsed original instead of the Full Copy
merge_onto_original(cnew, cold, full, original, t, haveFuzz) ==
    LET ms == _match_comp_elements(cnew, cold, t, haveFuzz)
        merged_soup ==
            _apply_changes_to_superset(
                ms, parse(original), SubsetElements(cnew), SubsetElements(cold), t)
    IN  [matches |-> ms, soup |-> parse(_cleanup_generated_ids(merged_soup))]

\* HTMLExtractMergeTool.merge, with no reconciler configured: the four
\* inputs are parsed, and original_soup is not used again
merge(cnew, cold, full, original, t, haveFuzz) ==
    LET full_soup == parse(full)
        original_soup == parse(original)
        ms == _match_comp_elements(cnew, cold, t, haveFuzz)
        merged_soup ==
            _apply_changes_to_superset(
                ms, full_soup, SubsetElements(cnew), SubsetElements(cold), t)
    IN  [matches |-> ms, soup |-> parse(_cleanup_generated_ids(merged_soup))]

\* --------------------------------------------------------------------- Spec
\* One HTMLExtractMergeTool: extract a document, edit the Subset, merge.

C == <<"c">>
AB == <<"a", " ", "B">>

\* ProcessingConfig.similarity_threshold, 0.7 unless configured
DefaultThreshold == (7 * Scale) \div 10

\* the id attribute of an element of the input: none, empty, an author's id,
\* an author's id of the minted shape
AttrChoices ==
    {<< >>, <<(<<ID, EMPTY>>)>>, <<(<<ID, X>>)>>, <<(<<ID, candidate_id(DIV, 1)>>)>>}

Leaves ==
    {Tag(tag, attrs, kids) :
        tag \in {DIV, SCRIPT}, attrs \in AttrChoices,
        kids \in {<< >>, <<NavigableString(B)>>}}

Items == {NavigableString(A), NavigableString(SPACE), Comment(NOTE)} \cup Leaves

\* the input documents: a body holding one div, whose children are strings,
\* comments and leaf elements; read by the parser, Tags numbered from 1
Documents ==
    {parse(Numbered(Tag(BODY, << >>, <<Tag(DIV, attrs, kids)>>), 1)) :
        attrs \in AttrChoices, kids \in SeqsUpTo(Items, MaxKids)}

\* the texts an editor types into a Subset element
EditTexts == {C, AB, EMPTY}

Init ==
    /\ gen = IDGenerator
    /\ returned = << >>
    /\ registered = {}
    /\ calls = 0
    /\ pc = "start"
    /\ similarity_threshold = DefaultThreshold
    /\ fuzz \in BOOLEAN
    /\ edited_elements = << >>
    /\ original_elements = << >>
    /\ matches = << >>
    /\ original_html \in Documents
    /\ superset = << >>
    /\ subset = << >>
    /\ edited_subset = << >>
    /\ edits = << >>
    /\ result = << >>
    /\ AuxIdleExcept({})

\* HTMLExtractMergeTool.extract
Extract ==
    /\ pc = "start"
    /\ LET g == _register_existing_ids(find_all(original_html), gen)
           r == _create_superset(clone_soup(original_html), g, 1, << >>)
           comp == _create_subset(find_all(r.soup))
       IN  /\ gen' = r.gen
           /\ registered' = g.used
           /\ returned' = [i \in 1..Len(r.ids) |-> [id |-> r.ids[i], before |-> g.used]]
           /\ superset' = r.soup
           /\ subset' = comp
           /\ edited_subset' = comp
    /\ pc' = "extracted"
    /\ UNCHANGED <<calls, matchVars, original_html, edits, result>>
    /\ AuxUnchangedExcept({})

\* the editor replaces the text of one Subset element
EditText ==
    \E i \in 1..Len(edited_subset), text \in EditTexts :
        /\ pc = "extracted"
        /\ Len(edits) < MaxEdits
        /\ text # edited_subset[i].text
        /\ edited_subset' = [edited_subset EXCEPT ![i].text = text]
        /\ edits' = Append(edits, [kind |-> "text", h |-> edited_subset[i].h, text |-> text])
        /\ UNCHANGED <<genVars, matchVars, pc, original_html, superset, subset, result>>
        /\ AuxUnchangedExcept({})

\* the editor removes one Subset element
EditDelete ==
    \E i \in 1..Len(edited_subset) :
        /\ pc = "extracted"
        /\ Len(edits) < MaxEdits
        /\ edited_subset' =
               SubSeq(edited_subset, 1, i - 1) \o SubSeq(edited_subset, i + 1, Len(edited_subset))
        /\ edits' = Append(edits, [kind |-> "delete", h |-> edited_subset[i].h, text |-> EMPTY])
        /\ UNCHANGED <<genVars, matchVars, pc, original_html, superset, subset, result>>
        /\ AuxUnchangedExcept({})

\* HTMLExtractMergeTool.merge(edited subset, subset, superset, original)
Merge ==
    /\ pc = "extracted"
    /\ LET m == merge(edited_subset, subset, superset, original_html,
                       similarity_threshold, fuzz)
       IN  /\ matches' = m.matches
           /\ result' = m.soup
    /\ edited_elements' = SubsetElements(edited_subset)
    /\ original_elements' = SubsetElements(subset)
    /\ pc' = "done"
    /\ UNCHANGED <<genVars, similarity_threshold, fuzz, original_html, superset, subset,
                   edited_subset, edits>>
    /\ AuxUnchangedExcept({})

Next == Extract \/ EditText \/ EditDelete \/ Merge

Spec == Init /\ [][Next]_vars

\* extract alone, on every input document
ExtractNext == Extract

SpecExtract == Init /\ [][ExtractNext]_vars

\* ----------------------------------------------------------- SpecOriginal
\* The same tool on the documents whose children are a string and leaf divs
\* with and without an author's id, small enough to merge again and again.

SmallItems ==
    {NavigableString(A),
     Tag(DIV, << >>, <<NavigableString(B)>>),
     Tag(DIV, <<(<<ID, X>>)>>, <<NavigableString(B)>>)}

SmallDocuments ==
    {parse(Numbered(Tag(BODY, << >>, <<Tag(DIV, << >>, kids)>>), 1)) :
        kids \in SeqsUpTo(SmallItems, MaxKids)}

\* values of merge's `original` argument: an empty document, one of other
\* text, one whose element carries the id the Full Copy's elements may carry
OriginalArgs ==
    {parse(Numbered(Tag(BODY, << >>, <<Tag(DIV, << >>, kids)>>), 1)) :
        kids \in {<< >>, <<NavigableString(C)>>,
                  <<Tag(DIV, <<(<<ID, X>>)>>, <<NavigableString(A)>>)>>}}

OrigInit ==
    /\ gen = IDGenerator
    /\ returned = << >>
    /\ registered = {}
    /\ calls = 0
    /\ pc = "start"
    /\ similarity_threshold = DefaultThreshold
    /\ fuzz \in BOOLEAN
    /\ edited_elements = << >>
    /\ original_elements = << >>
    /\ matches = << >>
    /\ original_html \in SmallDocuments
    /\ superset = << >>
    /\ subset = << >>
    /\ edited_subset = << >>
    /\ edits = << >>
    /\ result = << >>
    /\ AuxIdleExcept({})

SpecOriginal == OrigInit /\ [][Next]_vars

\* ------------------------------------------------------------- SpecStages
\* One call of merge, stage by stage as its body runs them: the four
\* arguments parsed, the Subsets matched, the unmatched records put to the
\* resolver, the records spliced into the Full Copy, the minted ids cleaned
\* off, the tree serialized.  A stage that raises ends the call.

\* the loop of _apply_llm_resolution from position i of unmatched_edits, the
\* resolver answering the i-th call with responses[i]
RECURSIVE resolve_all(_, _, _, _, _, _)
resolve_all(ms, remaining, ue, responses, t, i) ==
    IF i > Len(ue) THEN [matches |-> ms, outcome |-> "return"]
    ELSE LET r == resolve_one(ms, remaining, ue[i], responses[i], t)
         IN  IF r.outcome = "raise" THEN [matches |-> ms, outcome |-> "raise"]
             ELSE resolve_all(r.matches, r.remaining, ue, responses, t, i + 1)

\* _apply_llm_resolution gets as far as its loop
enters_loop(ms, use, reconciler) ==
    /\ escalates(use, reconciler)
    /\ RecordIndices(ms, TRUE, 1) # << >>
    /\ RecordIndices(ms, FALSE, 1) # << >>

\* a parse stage that goes on whatever the parser said
after_parse_lenient(bad) == "parsed"

\* self.parser.parse on the four arguments: ValueError when no parser
\* accepts one of them
after_parse(bad) == IF bad # "" THEN "raised" ELSE "parsed"

\* what an editor returns for a Subset: the Subset itself, or one entry with
\* another text, with another text and no id, or removed
EditedSubsets(comp) ==
    {comp}
    \cup {[comp EXCEPT ![i].text = C] : i \in 1..Len(comp)}
    \cup {[comp EXCEPT ![i].text = C, ![i].attrs = << >>] : i \in 1..Len(comp)}
    \cup {SubSeq(comp, 1, i - 1) \o SubSeq(comp, i + 1, Len(comp)) : i \in 1..Len(comp)}

\* the answers of the resolver in this specification
StageResponses ==
    {[kind |-> "raises", none |-> TRUE, best_index |-> 0, confidence |-> 0],
     [kind |-> "malformed", none |-> TRUE, best_index |-> 0, confidence |-> 0],
     [kind |-> "dict", none |-> FALSE, best_index |-> 0, confidence |-> DefaultThreshold]}

StageInit ==
    /\ gen = IDGenerator
    /\ returned = << >>
    /\ registered = {}
    /\ calls = 0
    /\ pc = "called"
    /\ similarity_threshold = DefaultThreshold
    /\ fuzz = TRUE
    /\ edited_elements = << >>
    /\ original_elements = << >>
    /\ matches = << >>
    /\ original_html \in SmallDocuments
    /\ LET g == _register_existing_ids(find_all(original_html), IDGenerator)
           r == _create_superset(clone_soup(original_html), g, 1, << >>)
           comp == _create_subset(find_all(r.soup))
       IN  /\ superset = r.soup
           /\ subset = comp
           /\ edited_subset \in EditedSubsets(comp)
    /\ edits = << >>
    /\ result = << >>
    /\ AuxIdleExcept({"esc", "stage"})
    /\ llm_use \in BOOLEAN
    /\ llm_reconciler \in {"unset", "available"}
    /\ llm_matches = << >>
    /\ unmatched_edits = << >>
    /\ remaining_candidates = << >>
    /\ cursor = 0
    /\ offers = << >>
    /\ stages = << >>
    /\ unparseable \in {"", "cnew", "cold", "superset", "original"}
    /\ stage_soup = << >>

\* what no stage touches
StageFrame ==
    /\ UNCHANGED <<genVars, similarity_threshold, fuzz, original_html, superset,
                   subset, edited_subset, edits, llm_use, llm_reconciler,
                   unmatched_edits, remaining_candidates, cursor, offers,
                   unparseable>>
    /\ AuxUnchangedExcept({"esc", "stage"})

\* edited_soup, original_comp_soup, full_soup, original_soup = parse(...)
StParse ==
    /\ pc = "called"
    /\ stages' = Append(stages, "parse")
    /\ pc' = after_parse(unparseable)
    /\ stage_soup' = IF pc' = "parsed" THEN parse(superset) ELSE stage_soup
    /\ UNCHANGED <<edited_elements, original_elements, matches, llm_matches, result>>
    /\ StageFrame

\* matches = self._match_comp_elements(edited_soup, original_comp_soup)
StMatch ==
    /\ pc = "parsed"
    /\ stages' = Append(stages, "match")
    /\ edited_elements' = SubsetElements(edited_subset)
    /\ original_elements' = SubsetElements(subset)
    /\ matches' = _match_comp_elements(edited_subset, subset,
                                       similarity_threshold, fuzz)
    /\ llm_matches' = matches'
    /\ pc' = "matched"
    /\ UNCHANGED <<stage_soup, result>>
    /\ StageFrame

\* matches = self._apply_llm_resolution(matches), when it has records to put
\* to a resolver
StEscalate ==
    /\ pc = "matched"
    /\ enters_loop(llm_matches, llm_use, llm_reconciler)
    /\ stages' = Append(stages, "escalate")
    /\ LET ue == RecordIndices(llm_matches, TRUE, 1)
           uo == RecordIndices(llm_matches, FALSE, 1)
       IN  \E responses \in [1..Len(ue) -> StageResponses] :
               LET r == resolve_all(llm_matches, uo, ue, responses,
                                    similarity_threshold, 1)
               IN  /\ llm_matches' = r.matches
                   /\ pc' = IF r.outcome = "raise" THEN "raised" ELSE "escalated"
    /\ UNCHANGED <<edited_elements, original_elements, matches, stage_soup, result>>
    /\ StageFrame

\* merged_soup = self._apply_changes_to_superset(matches, full_soup)
StSplice ==
    /\ \/ pc = "escalated"
       \/ pc = "matched" /\ ~enters_loop(llm_matches, llm_use, llm_reconciler)
    /\ stages' = Append(stages, "splice")
    /\ stage_soup' = _apply_changes_to_superset(llm_matches, stage_soup,
                         edited_elements, original_elements, similarity_threshold)
    /\ pc' = "spliced"
    /\ UNCHANGED <<edited_elements, original_elements, matches, llm_matches, result>>
    /\ StageFrame

\* final_soup = self._cleanup_generated_ids(merged_soup)
StCleanup ==
    /\ pc = "spliced"
    /\ stages' = Append(stages, "cleanup")
    /\ stage_soup' = _cleanup_generated_ids(stage_soup)
    /\ pc' = "cleaned"
    /\ UNCHANGED <<edited_elements, original_elements, matches, llm_matches, result>>
    /\ StageFrame

\* result_html = str(final_soup); return result_html
StSerialize ==
    /\ pc = "cleaned"
    /\ stages' = Append(stages, "serialize")
    /\ result' = parse(stage_soup)
    /\ pc' = "returned"
    /\ UNCHANGED <<edited_elements, original_elements, matches, llm_matches,
                   stage_soup>>
    /\ StageFrame

StageNext ==
    StParse \/ StMatch \/ StEscalate \/ StSplice \/ StCleanup \/ StSerialize

SpecStages == StageInit /\ [][StageNext]_vars

\* -------------------------------------------------------------- validation
\* HTMLParser.validate_html.  The content is [kind, text]: kind says whether
\* the caller passed a str, bytes or some other object, text is the characters
\* of a str or of decoded bytes.  The backends are [available, wraps, rejects]:
\* whether a preferred backend is installed, whether the backend that parses
\* supplies html and body elements of its own (lxml and html5lib do,
\* html.parser does not), and whether BeautifulSoup refuses an object that
\* is no string.

\* "No HTML elements found"
NO_ELEMENTS ==
    <<"N", "o", " ", "H", "T", "M", "L", " ", "e", "l", "e", "m", "e", "n",
    "t", "s", " ", "f", "o", "u", "n", "d">>

\* "Mismatched angle brackets"
MISMATCHED ==
    <<"M", "i", "s", "m", "a", "t", "c", "h", "e", "d", " ", "a", "n", "g",
    "l", "e", " ", "b", "r", "a", "c", "k", "e", "t", "s">>

\* "No DOCTYPE declaration (warning)"
NO_DOCTYPE ==
    <<"N", "o", " ", "D", "O", "C", "T", "Y", "P", "E", " ", "d", "e", "c",
    "l", "a", "r", "a", "t", "i", "o", "n", " ", "(", "w", "a", "r", "n",
    "i", "n", "g", ")">>

\* the head of the issue the except branch appends
PARSING_ERROR ==
    <<"P", "a", "r", "s", "i", "n", "g", " ", "e", "r", "r", "o", "r", ":",
    " ">>

\* "warning"
WARNING ==
    <<"w", "a", "r", "n", "i", "n", "g">>

\* "<!doctype"
DOCTYPE ==
    <<"<", "!", "d", "o", "c", "t", "y", "p", "e">>

\* str.count(c)
RECURSIVE count(_, _)
count(s, c) ==
    IF s = << >> THEN 0
    ELSE (IF Head(s) = c THEN 1 ELSE 0) + count(Tail(s), c)

Letters == {"a", "b", "c", "d", "e", "h", "l", "m", "n", "o", "p", "t", "y"}

\* a "<" followed by a letter opens an element, in every backend
HasStartTag(text) ==
    \E i \in 1..(Len(text) - 1) : text[i] = "<" /\ lower(<<text[i + 1]>>)[1] \in Letters

\* HTMLParser.parse: raises ValueError when no preferred backend is installed
\* or every backend refuses the content, else returns the tree; of the tree
\* only whether soup.find() finds an element is kept
HTMLParser_parse(c, b) ==
    IF ~b.available \/ (c.kind = "other" /\ b.rejects)
    THEN [raised |-> TRUE, found |-> FALSE]
    ELSE [raised |-> FALSE,
          found |-> c.kind # "other" /\ (HasStartTag(c.text) \/ b.wraps)]

\* an except branch that lets the exception go
caught_reraise(issues) ==
    [raised |-> TRUE, is_valid |-> FALSE, issues |-> issues]

\* validate_html's except branch: the exception becomes one more issue
caught(issues) ==
    [raised |-> FALSE, is_valid |-> FALSE, issues |-> issues \o <<PARSING_ERROR>>]

\* "warning" in issue.lower()
is_warning(issue) == Contains(lower(issue), WARNING)

\* HTMLParser.validate_html
validate_html(c, b) ==
    LET soup == HTMLParser_parse(c, b)
        found_issues == IF soup.found THEN << >> ELSE <<NO_ELEMENTS>>
        bracket_issues ==
            IF count(c.text, "<") # count(c.text, ">") THEN <<MISMATCHED>> ELSE << >>
        doctype_issues ==
            IF StartsWith(lower(strip(c.text)), DOCTYPE) THEN << >> ELSE <<NO_DOCTYPE>>
        issues == found_issues \o bracket_issues \o doctype_issues
    IN  IF soup.raised THEN caught(<< >>)
        \* bytes.count("<") and the count of an object that is no string raise
        ELSE IF c.kind # "str" THEN caught(found_issues)
        ELSE [raised |-> FALSE,
              is_valid |-> Len(issues) = 0 \/ \A k \in 1..Len(issues) : is_warning(issues[k]),
              issues |-> issues]

\* most pieces a validated content is made of
MaxPieces == 3

\* the pieces: tags, text, white space, stray brackets and the two doctypes
Pieces ==
    {<<"<", "p", ">">>,
     <<"<", "/", "p", ">">>,
     <<"t">>,
     <<" ">>,
     <<"<", " ">>,
     <<">">>,
     <<"<", "!", "d", "o", "c", "t", "y", "p", "e", " ", "h", "t", "m", "l", ">">>,
     <<"<", "!", "D", "O", "C", "T", "Y", "P", "E", " ", "h", "t", "m", "l", ">">>}

RECURSIVE Concat(_)
Concat(parts) == IF parts = << >> THEN << >> ELSE Head(parts) \o Concat(Tail(parts))

Texts == {Concat(parts) : parts \in UNION {[1..n -> Pieces] : n \in 0..MaxPieces}}

Contents ==
    {[kind |-> k, text |-> t] : k \in {"str", "bytes"}, t \in Texts}
        \cup {[kind |-> "other", text |-> << >>]}

Backends == [available : BOOLEAN, wraps : BOOLEAN, rejects : BOOLEAN]

ValInit ==
    /\ CoreIdle
    /\ pc = "ready"
    /\ AuxIdleExcept({"val"})
    /\ content \in Contents
    /\ backend \in Backends
    /\ verdict = << >>

\* one validate_html call
Validate ==
    /\ pc = "ready"
    /\ pc' = "validated"
    /\ verdict' = <<validate_html(content, backend)>>
    /\ UNCHANGED <<genVars, matchVars, toolVars, content, backend>>
    /\ AuxUnchangedExcept({"val"})

ValNext == Validate

SpecValidate == ValInit /\ [][ValNext]_vars

\* --------------------------------------------------------------- SpecHash
\* match_elements on one edited and one original element whose attribute
\* dicts hold the same items in the same or in another insertion order, and
\* whose texts differ in white space only or in more.

CLASS == <<"c", "l", "a", "s", "s">>
TITLE_ATTR == <<"t", "i", "t", "l", "e">>

AttrLists ==
    {<< >>,
     <<(<<CLASS, A>>)>>,
     <<(<<CLASS, A>>), (<<TITLE_ATTR, B>>)>>,
     <<(<<TITLE_ATTR, B>>), (<<CLASS, A>>)>>,
     <<(<<ID, X>>), (<<CLASS, A>>)>>,
     <<(<<CLASS, A>>), (<<ID, X>>)>>,
     <<(<<ID, X>>), (<<CLASS, B>>)>>}

HashTexts == {<<"a", " ", "b">>, <<"a", " ", " ", "b">>, <<"a">>}

HashPool == [tag : {DIV, P}, attrs : AttrLists, text : HashTexts]

HashInit ==
    /\ gen = IDGenerator
    /\ returned = << >>
    /\ registered = {}
    /\ calls = 0
    /\ pc = "ready"
    /\ similarity_threshold \in Thresholds
    /\ fuzz \in BOOLEAN
    /\ edited_elements \in [1..1 -> HashPool]
    /\ original_elements \in [1..1 -> HashPool]
    /\ matches = << >>
    /\ original_html = << >>
    /\ superset = << >>
    /\ subset = << >>
    /\ edited_subset = << >>
    /\ edits = << >>
    /\ result = << >>
    /\ AuxIdleExcept({})

SpecHash == HashInit /\ [][MatchNext]_vars

\* -------------------------------------------------------------- SpecStale
\* One ElementMatcher over successive matching runs, at the level of its
\* _get_content_hash calls.  _match_comp_elements hands every run to the one
\* self.element_matcher of the tool and nothing on that path calls
\* clear_cache, so the cache of one run is still there in the next, when the
\* trees of the earlier run are freed and id() may hand their addresses to
\* the elements of the new trees.  An element may also be changed by its
\* owner between two calls.  Here original_elements holds the live objects,
\* each an [id, el], and results one [id, el, hash] per call.

\* _get_content_hash calls per behaviour of SpecStale
MaxHashCalls == 3

Addresses == 1..(MaxElems + 1)

\* the lists of live objects: no two at one address
ObjectLists ==
    {l \in UNION {[1..n -> [id : Addresses, el : CachePool]] : n \in 1..MaxElems} :
        \A i, j \in 1..Len(l) : i # j => l[i].id # l[j].id}

StaleInit ==
    /\ CoreIdle
    /\ AuxIdleExcept({"cache"})
    /\ pc = "ready"
    /\ content_cache = << >>
    /\ results = << >>

\* a matching run begins: the trees of the run are parsed
StaleRun ==
    /\ pc \in {"ready", "hashed"}
    /\ Len(results) < MaxHashCalls
    /\ original_elements' \in ObjectLists
    /\ pc' = "running"
    /\ UNCHANGED <<genVars, toolVars, similarity_threshold, fuzz, edited_elements,
                   matches, content_cache, results>>
    /\ AuxUnchangedExcept({"cache"})

\* self._get_content_hash(element) on one of the live objects
StaleHash ==
    /\ pc \in {"running", "hashed", "mutated"}
    /\ Len(results) < MaxHashCalls
    /\ \E i \in 1..Len(original_elements) :
        \E r \in {_get_content_hash_cached(content_cache, original_elements[i])} :
            /\ content_cache' = r.cache
            /\ results' = Append(results, [id |-> original_elements[i].id,
                                           el |-> original_elements[i].el,
                                           hash |-> r.hash])
    /\ pc' = "hashed"
    /\ UNCHANGED <<genVars, toolVars, similarity_threshold, fuzz, edited_elements,
                   original_elements, matches>>
    /\ AuxUnchangedExcept({"cache"})

\* the owner of a live object changes its tag, attributes or text
StaleMutate ==
    /\ pc = "hashed"
    /\ Len(results) < MaxHashCalls
    /\ \E i \in 1..Len(original_elements), e \in CachePool :
        /\ e # original_elements[i].el
        /\ original_elements' = [original_elements EXCEPT ![i].el = e]
    /\ pc' = "mutated"
    /\ UNCHANGED <<genVars, toolVars, similarity_threshold, fuzz, edited_elements,
                   matches, content_cache, results>>
    /\ AuxUnchangedExcept({"cache"})

StaleNext == StaleRun \/ StaleHash \/ StaleMutate

SpecStale == StaleInit /\ [][StaleNext]_vars

\* ------------------------------------------------------------- SpecSplice
\* One call of merge with the loop of _apply_changes_to_superset taken turn
\* by turn: cursor counts the records done, stage_soup is the Full Copy as
\* the turns leave it, and stages holds one entry per turn, [record, h,
\* new_text, before, after]: the record's index, the handle of the element
\* full_soup.find returned (0 when the turn looked nothing up), the text of
\* the record's edited element, and the tree before and after the turn.

\* the children of the documents: a string, text-bearing divs with and
\* without an author's id, and a div with an id and no text
SpliceItems == SmallItems \cup {Tag(DIV, <<(<<ID, X>>)>>, << >>)}

\* a string followed by two text-bearing divs of one and the same id
TwinKids ==
    <<NavigableString(A), Tag(DIV, <<(<<ID, X>>)>>, <<NavigableString(B)>>),
      Tag(DIV, <<(<<ID, X>>)>>, <<NavigableString(B)>>)>>

SpliceDocuments ==
    {parse(Numbered(Tag(BODY, << >>, <<Tag(DIV, << >>, kids)>>), 1)) :
        kids \in SeqsUpTo(SpliceItems, MaxKids) \cup {TwinKids}}

\* what an editor returns for a Subset here: as in EditedSubsets, or one
\* entry with its text taken out, or two entries with another text
SpliceEdits(comp) ==
    EditedSubsets(comp) \cup {[comp EXCEPT ![i].text = EMPTY] : i \in 1..Len(comp)}
      \cup {[comp EXCEPT ![i].text = C, ![j].text = C] : i, j \in 1..Len(comp)}

SpliceInit ==
    /\ gen = IDGenerator
    /\ returned = << >>
    /\ registered = {}
    /\ calls = 0
    /\ pc = "called"
    /\ similarity_threshold = DefaultThreshold
    /\ fuzz = TRUE
    /\ edited_elements = << >>
    /\ original_elements = << >>
    /\ matches = << >>
    /\ original_html \in SpliceDocuments
    /\ LET g == _register_existing_ids(find_all(original_html), IDGenerator)
           r == _create_superset(clone_soup(original_html), g, 1, << >>)
           comp == _create_subset(find_all(r.soup))
       IN  /\ superset = r.soup
           /\ subset = comp
           /\ edited_subset \in SpliceEdits(comp)
    /\ edits = << >>
    /\ result = << >>
    /\ AuxIdleExcept({"esc", "stage"})
    /\ llm_use \in BOOLEAN
    /\ llm_reconciler \in {"unset", "available"}
    /\ llm_matches = << >>
    /\ unmatched_edits = << >>
    /\ remaining_candidates = << >>
    /\ cursor = 0
    /\ offers = << >>
    /\ stages = << >>
    /\ unparseable = ""
    /\ stage_soup = << >>

\* what no step of the splice touches
SpliceFrame ==
    /\ UNCHANGED <<genVars, similarity_threshold, fuzz, original_html, superset,
                   subset, edited_subset, edits, llm_use, llm_reconciler,
                   unmatched_edits, remaining_candidates, offers, unparseable,
                   result>>
    /\ AuxUnchangedExcept({"esc", "stage"})

\* the four arguments parsed and the Subsets matched
SpMatch ==
    /\ pc = "called"
    /\ stage_soup' = parse(superset)
    /\ edited_elements' = SubsetElements(edited_subset)
    /\ original_elements' = SubsetElements(subset)
    /\ matches' = _match_comp_elements(edited_subset, subset,
                                       similarity_threshold, fuzz)
    /\ llm_matches' = matches'
    /\ pc' = "matched"
    /\ UNCHANGED <<cursor, stages>>
    /\ SpliceFrame

\* matches = self._apply_llm_resolution(matches), when it has records to put
\* to a resolver
SpEscalate ==
    /\ pc = "matched"
    /\ enters_loop(llm_matches, llm_use, llm_reconciler)
    /\ LET ue == RecordIndices(llm_matches, TRUE, 1)
           uo == RecordIndices(llm_matches, FALSE, 1)
       IN  \E responses \in [1..Len(ue) -> StageResponses] :
               LET r == resolve_all(llm_matches, uo, ue, responses,
                                    similarity_threshold, 1)
               IN  /\ llm_matches' = r.matches
                   /\ pc' = IF r.outcome = "raise" THEN "raised" ELSE "escalated"
    /\ UNCHANGED <<edited_elements, original_elements, matches, stage_soup,
                   cursor, stages>>
    /\ SpliceFrame

\* _apply_changes_to_superset is entered, or is between two turns
InSplice ==
    \/ pc \in {"escalated", "splicing"}
    \/ pc = "matched" /\ ~enters_loop(llm_matches, llm_use, llm_reconciler)

\* the element a turn looks up: the handle full_soup.find returns for the
\* baseline id of a two-sided record of enough confidence, 0 when the record
\* is of another kind or nothing carries the id
target(soup, rec, O, t) ==
    IF rec.e # 0 /\ rec.o # 0 /\ rec.conf >= t /\ GetAttr(O[rec.o], ID) # EMPTY
    THEN find(soup, GetAttr(O[rec.o], ID))
    ELSE 0

\* one turn of the second loop of _apply_changes_to_superset
SpTurn ==
    /\ InSplice
    /\ cursor < Len(llm_matches)
    /\ LET rec == llm_matches[cursor + 1]
           byId == match_by_id(llm_matches, edited_elements, original_elements)
       IN  /\ stage_soup' = ApplyRecord(stage_soup, rec, byId, edited_elements,
                                        original_elements, similarity_threshold)
           /\ stages' = Append(stages,
                  [record |-> cursor + 1,
                   h |-> target(stage_soup, rec, original_elements,
                                similarity_threshold),
                   new_text |-> IF rec.e # 0 THEN SubsetText(edited_elements[rec.e])
                                ELSE EMPTY,
                   before |-> stage_soup,
                   after |-> stage_soup'])
    /\ cursor' = cursor + 1
    /\ pc' = "splicing"
    /\ UNCHANGED <<edited_elements, original_elements, matches, llm_matches>>
    /\ SpliceFrame

\* return full_soup
SpReturn ==
    /\ InSplice
    /\ cursor = Len(llm_matches)
    /\ pc' = "spliced"
    /\ UNCHANGED <<edited_elements, original_elements, matches, llm_matches,
                   stage_soup, cursor, stages>>
    /\ SpliceFrame

SpliceNext == SpMatch \/ SpEscalate \/ SpTurn \/ SpReturn

SpecSplice == SpliceInit /\ [][SpliceNext]_vars

\* ------------------------------------------------------------------ claims

\* C1 (as stated): every id returned by generate_id differs from every id
\* returned by another generate_id call and from every registered id, whenever
\* that id was registered.
C1_Original ==
    /\ \A i, j \in 1..Len(returned) : i # j => returned[i].id # returned[j].id
    /\ \A i \in 1..Len(returned) : returned[i].id \notin registered

\* C1 (amended): every id returned by generate_id differs from every id returned
\* by another generate_id call and from every id registered before that call,
\* also when a registered id is exactly the next candidate of the counter.
C1_Unique ==
    /\ \A i, j \in 1..Len(returned) : i # j => returned[i].id # returned[j].id
    /\ \A i \in 1..Len(returned) : returned[i].id \notin returned[i].before

\* a registered id had the shape of the next candidate, and generate_id was
\* called after it
C1_Witness ==
    \E i \in 1..Len(returned) :
        /\ candidate_id(DIV, 1) \in returned[i].before
        /\ returned[i].id = candidate_id(DIV, 2)
        /\ i = 1

\* the originals claimed by the records before record i
ClaimedBefore(i) == {matches[k].o : k \in 1..(i - 1)} \ {0}

Score(i, j) == _calculate_similarity(edited_elements[i], original_elements[j], fuzz)

\* C9: for every threshold and every edited element, an unclaimed original
\* scoring exactly the threshold, with no unclaimed original scoring higher,
\* makes the edited element's record a match of that confidence; and no record
\* pairs an edited element with an original scoring below the threshold.
C9_ThresholdBoundary ==
    pc = "matched" =>
        \A i \in 1..Len(edited_elements) :
            LET free == (1..Len(original_elements)) \ ClaimedBefore(i)
            IN  /\ (/\ \E j \in free : Score(i, j) = similarity_threshold
                    /\ \A j \in free : Score(i, j) <= similarity_threshold)
                        => (matches[i].o \in free /\ matches[i].conf = similarity_threshold)
                /\ \A j \in free :
                        Score(i, j) < similarity_threshold => matches[i].o # j

\* C9 away from threshold 0: the boundary statement for every positive threshold
C9_PositiveThreshold ==
    similarity_threshold > 0 => C9_ThresholdBoundary

\* C10: one record per edited element in edited order, then one (None,
\* original, 0.0) record per unclaimed original in original order; no original
\* in two records; every two-sided record has confidence >= the threshold.
C10_RecordShape ==
    pc = "matched" =>
        LET n == Len(edited_elements)
            claimed == {matches[k].o : k \in 1..n} \ {0}
            tail == SubSeq(matches, n + 1, Len(matches))
        IN  /\ Len(matches) >= n
            /\ \A i \in 1..n : matches[i].e = i
            /\ \A i \in 1..n : matches[i].o = 0 \/ matches[i].o \in 1..Len(original_elements)
            /\ \A k \in 1..Len(tail) :
                    tail[k].e = 0 /\ tail[k].o # 0 /\ tail[k].conf = 0
            /\ \A k, l \in 1..Len(tail) : k < l => tail[k].o < tail[l].o
            /\ {tail[k].o : k \in 1..Len(tail)} = (1..Len(original_elements)) \ claimed
            /\ \A k, l \in 1..Len(matches) :
                    (k # l /\ matches[k].o # 0) => matches[k].o # matches[l].o
            /\ \A k \in 1..Len(matches) :
                    (matches[k].e # 0 /\ matches[k].o # 0)
                        => matches[k].conf >= similarity_threshold

\* a run that returned a pair, an edited-only record and an original-only record
C10_Witness ==
    /\ pc = "matched"
    /\ similarity_threshold > 0
    /\ \E k \in 1..Len(matches) : matches[k].e # 0 /\ matches[k].o # 0
    /\ \E k \in 1..Len(matches) : matches[k].e # 0 /\ matches[k].o = 0
    /\ \E k \in 1..Len(matches) : matches[k].e = 0 /\ matches[k].o # 0

\* ------------------------------------------------------- claims on the tool

Range(seq) == {seq[i] : i \in 1..Len(seq)}

\* the ids the generator minted during extract
Minted == {returned[i].id : i \in 1..Len(returned)}

\* the Tag of a tree that came from the input Tag numbered h
Present(tree, h) == h \in Handles(tree)

\* merge(subset, subset, fullCopy, html): the Subset went back as extracted
NoEditMerge == pc = "done" /\ edits = << >>

\* the Comment children of a Tag, in order
RECURSIVE CommentsOf(_)
CommentsOf(kids) ==
    IF kids = << >> THEN << >>
    ELSE IF Head(kids).k = "comment" THEN <<Head(kids).s>> \o CommentsOf(Tail(kids))
    ELSE CommentsOf(Tail(kids))

\* every id attribute of the input has a value, and none has the minted shape
AuthorIds ==
    \A i \in 1..Len(find_all(original_html)) :
        LET e == find_all(original_html)[i]
        IN  HasAttr(e, ID) => GetAttr(e, ID) # EMPTY /\ ~is_generated_id(GetAttr(e, ID))

\* C2: after extract and a merge of the unedited Subset, every script and every
\* comment of the input is in the output unchanged, every id attribute of the
\* input is on the same element with the same value, and no minted id remains.
\* Stated for the inputs whose id attributes are non-empty and not of the
\* minted shape, where nothing depends on how the generator recognises its ids.
C2_RoundTripStructure ==
    (NoEditMerge /\ AuthorIds) =>
        \A i \in 1..Len(find_all(original_html)) :
            LET e == find_all(original_html)[i]
            IN  /\ e.tag = SCRIPT => Present(result, e.h) /\ TagAt(result, e.h) = e
                /\ CommentsOf(e.kids) # << >> =>
                       /\ Present(result, e.h)
                       /\ CommentsOf(TagAt(result, e.h).kids) = CommentsOf(e.kids)
                /\ HasAttr(e, ID) =>
                       /\ Present(result, e.h)
                       /\ HasAttr(TagAt(result, e.h), ID)
                       /\ GetAttr(TagAt(result, e.h), ID) = GetAttr(e, ID)
                /\ Present(result, e.h) => GetAttr(TagAt(result, e.h), ID) \notin Minted

\* the original text of the one Subset element the editor retyped
EditedFrom == (CHOOSE i \in 1..Len(subset) : subset[i].h = edits[1].h)

\* the input with the Tag numbered h taken out
Without(tree, h) == ReplaceAt(tree, h, NavigableString(EMPTY))

\* C3: when the text of one Subset element is replaced by a different non-empty
\* text, and the original text occurs nowhere else in the input nor in the new
\* text, the merged document has the new text in the corresponding element, the
\* original text nowhere, and no minted id on that element.
C3_SingleEdit ==
    (/\ pc = "done"
     /\ Len(edits) = 1
     /\ edits[1].kind = "text"
     /\ edits[1].text # EMPTY
     /\ ~Contains(edits[1].text, subset[EditedFrom].text)
     /\ ~Contains(get_text(Without(original_html, edits[1].h)), subset[EditedFrom].text))
    => /\ Present(result, edits[1].h)
       /\ Contains(get_text(TagAt(result, edits[1].h)), edits[1].text)
       /\ ~Contains(get_text(result), subset[EditedFrom].text)
       /\ GetAttr(TagAt(result, edits[1].h), ID) \notin Minted

\* C4: after extract and a merge of the unedited Subset, every element of the
\* input is in the output with the same flattened text.
C4_RoundTripText ==
    NoEditMerge =>
        \A i \in 1..Len(find_all(original_html)) :
            LET e == find_all(original_html)[i]
            IN  /\ Present(result, e.h)
                /\ get_text(TagAt(result, e.h)) = get_text(e)

\* extract has returned
Extracted == pc # "start"

\* C5 (as stated): after extract every text-bearing element of the Full Copy
\* has a non-empty id, and an id attribute present on an element of the input
\* is on that element of the Full Copy with the same value.
C5_Original ==
    Extracted =>
        /\ LET full == find_all(superset)
           IN  \A i \in 1..Len(full) :
                   _is_text_containing_element(full[i]) => GetAttr(full[i], ID) # EMPTY
        /\ \A e \in Range(find_all(original_html)) :
               HasAttr(e, ID) =>
                   /\ HasAttr(TagAt(superset, e.h), ID)
                   /\ GetAttr(TagAt(superset, e.h), ID) = GetAttr(e, ID)

\* C5 (amended): after extract every text-bearing element of the Full Copy has
\* a non-empty id, and a non-empty id present on an element of the input is on
\* that element of the Full Copy with the same value; an id attribute that is
\* present but empty on a text-bearing element is replaced by a minted id.
C5_IdInvariant ==
    Extracted =>
        /\ LET full == find_all(superset)
           IN  \A i \in 1..Len(full) :
                   _is_text_containing_element(full[i]) => GetAttr(full[i], ID) # EMPTY
        /\ \A e \in Range(find_all(original_html)) :
               /\ GetAttr(e, ID) # EMPTY =>
                      GetAttr(TagAt(superset, e.h), ID) = GetAttr(e, ID)
               /\ (HasAttr(e, ID) /\ GetAttr(e, ID) = EMPTY
                      /\ _is_text_containing_element(e)) =>
                      GetAttr(TagAt(superset, e.h), ID) \in Minted

\* extract has minted an id for one text-bearing element and met another
\* text-bearing element that came with a non-empty id of its own
C5_Witness ==
    /\ pc = "extracted"
    /\ Minted # {}
    /\ \E i \in 1..Len(find_all(original_html)) :
           /\ _is_text_containing_element(find_all(original_html)[i])
           /\ GetAttr(find_all(original_html)[i], ID) # EMPTY

\* C6: an element that comes with an id keeps exactly that id in the Full Copy,
\* in the Subset and, where the element is still there, in the output of the
\* merge, and its id is never one the generator minted.
C6_ExistingIdKept ==
    \A i \in 1..Len(find_all(original_html)) :
        LET e == find_all(original_html)[i]
        IN  GetAttr(e, ID) # EMPTY =>
                /\ Extracted =>
                       /\ GetAttr(TagAt(superset, e.h), ID) = GetAttr(e, ID)
                       /\ \A j \in 1..Len(subset) :
                              subset[j].h = e.h => GetAttr(subset[j], ID) = GetAttr(e, ID)
                       /\ GetAttr(e, ID) \notin Minted
                /\ (pc = "done" /\ Present(result, e.h)) =>
                       GetAttr(TagAt(result, e.h), ID) = GetAttr(e, ID)

\* C7: when the editor removes one element from the Subset, the element of the
\* Full Copy it was extracted from is not in the merged output.
C7_DeletionPropagates ==
    (pc = "done" /\ Len(edits) = 1 /\ edits[1].kind = "delete")
        => ~Present(result, edits[1].h)

\* C8: after the cleanup step no id attribute of the output is one the
\* generator recognises as minted, and every id attribute that came with the
\* input, whatever its spelling, is still on its element with the same value.
C8_CleanupKeepsExisting ==
    pc = "done" =>
        /\ \A i \in 1..Len(find_all(result)) :
               HasAttr(find_all(result)[i], ID)
                   => ~is_generated_id(GetAttr(find_all(result)[i], ID))
        /\ \A i \in 1..Len(find_all(original_html)) :
               LET e == find_all(original_html)[i]
               IN  (GetAttr(e, ID) # EMPTY /\ Present(result, e.h)) =>
                       /\ HasAttr(TagAt(result, e.h), ID)
                       /\ GetAttr(TagAt(result, e.h), ID) = GetAttr(e, ID)

\* ------------------------------------------------- claims on the cache

\* C11: calling match_elements again on the same matcher with the same two
\* lists of the same objects returns the record list the call before it
\* returned, the same pairings in the same order with the same confidences,
\* whatever the content-hash cache held before and after the first call
C11_RepeatCallSame ==
    \A k \in 2..Len(results) :
        ~results[k].after_clear => results[k].matches = results[k - 1].matches

\* two calls in a row on a matcher whose cache held an entry that changed
\* what the first call returned
C11_Witness ==
    /\ Len(results) = 2
    /\ ~results[2].after_clear
    /\ results[1].matches # match_elements(edited_elements, original_elements,
                                           similarity_threshold, fuzz)

\* -------------------------------------------------- claims on escalation

\* the turn of the escalation loop that put record i to the resolver and got
\* an answer it could act on: a dict naming a candidate of the pool on offer
\* with a confidence of at least the threshold
ResolvedAt(k, i) ==
    /\ offers[k].edit = i
    /\ offers[k].response.kind = "dict"
    /\ ~offers[k].response.none
    /\ 0 <= offers[k].response.best_index
    /\ offers[k].response.best_index < Len(offers[k].pool)
    /\ offers[k].response.confidence >= similarity_threshold

\* _apply_llm_resolution is past its entry tests
InEscalation == pc \in {"resolving", "returned", "raised"}

\* C12: with the resolver unset, unavailable, raising from is_available or
\* raising from resolve_conflict, the escalation still returns; nothing but
\* an unreadable answer stops it, and every record the resolver did not
\* resolve is the record the matcher produced
C12_Degrades ==
    InEscalation =>
        /\ pc = "raised" =>
               offers[Len(offers)].response.kind = "malformed"
        /\ llm_reconciler \in {"unset", "unavailable", "is_available raises"} =>
               pc = "returned" /\ offers = << >> /\ llm_matches = matches
        /\ Len(llm_matches) = Len(matches)
        /\ \A i \in 1..Len(matches) :
               (\A k \in 1..Len(offers) : ~ResolvedAt(k, i)) =>
                   llm_matches[i] = matches[i]

\* the escalation returned after one call of resolve_conflict raised and
\* another resolved its record
C12_Witness ==
    /\ pc = "returned"
    /\ \E k \in 1..Len(offers) : offers[k].response.kind = "raises"
    /\ llm_matches # matches

\* the record indices of the candidates of a pool
PoolSet(k) == {offers[k].pool[j] : j \in 1..Len(offers[k].pool)}

\* the turn k promoted its record
PromotedAt(k) == llm_matches[offers[k].edit] # matches[offers[k].edit]

\* C13: the edited-only records go to the resolver in record order; a record
\* is promoted only on an index inside the pool then on offer and a
\* confidence of at least the threshold, to (edited, that candidate, the
\* resolver's confidence); a baseline element promoted once is in no later
\* pool and in no other pairing
C13_Escalation ==
    InEscalation =>
        /\ \A k \in 1..Len(offers) :
               offers[k].edit = RecordIndices(matches, TRUE, 1)[k]
        /\ \A i \in 1..Len(matches) :
               llm_matches[i] # matches[i] =>
                   \E k \in 1..Len(offers) :
                       /\ ResolvedAt(k, i)
                       /\ llm_matches[i] =
                              [e |-> matches[i].e,
                               o |-> matches[offers[k].pool[
                                         offers[k].response.best_index + 1]].o,
                               conf |-> offers[k].response.confidence]
        /\ \A k \in 1..Len(offers) : \A later \in (k + 1)..Len(offers) :
               PromotedAt(k) =>
                   offers[k].pool[offers[k].response.best_index + 1]
                       \notin PoolSet(later)
        /\ \A i, j \in 1..Len(llm_matches) :
               (i # j /\ llm_matches[i].e # 0 /\ llm_matches[j].e # 0
                      /\ llm_matches[i].o # 0)
                   => llm_matches[i].o # llm_matches[j].o

\* two records promoted in turn, the second from the pool the first left
C13_Witness ==
    /\ pc = "returned"
    /\ Len(offers) = 2
    /\ PromotedAt(1)
    /\ PromotedAt(2)
    /\ Len(offers[2].pool) = 1

\* ---------------------------------------------- claims on configuration

\* the caller passed field k
Given(k) == k \in DOMAIN kwargs

\* a value the caller passed is outside what ProcessingConfig accepts
BadArgument ==
    \/ Given("similarity_threshold")
           /\ (kwargs.similarity_threshold < 0 \/ kwargs.similarity_threshold > ONE)
    \/ Given("max_context_tokens") /\ kwargs.max_context_tokens < 100
    \/ Given("memory_limit_mb") /\ kwargs.memory_limit_mb < 1

\* C14: a similarity_threshold outside [0.0, 1.0], a max_context_tokens below
\* 100 or a memory_limit_mb below 1 raises ValueError and leaves no config;
\* anything else, the boundaries 0.0, 1.0, 100 and 1 included, is accepted
\* and every value passed is the value of the config, unclamped and ahead of
\* the profile's default; the class and the three factories agree on this
C14_Validation ==
    pc = "constructed" =>
        /\ BadArgument => raised = "ValueError" /\ config = << >>
        /\ ~BadArgument =>
               /\ raised = ""
               /\ Len(config) = 1
               /\ \A k \in DOMAIN kwargs : config[1][k] = kwargs[k]

\* a factory was given the boundary values over its defaults and returned a
\* config holding them
C14_Witness ==
    /\ pc = "constructed"
    /\ factory = "fast_profile"
    /\ Given("similarity_threshold") /\ kwargs.similarity_threshold = ONE
    /\ Given("max_context_tokens") /\ kwargs.max_context_tokens = 100
    /\ Given("memory_limit_mb") /\ kwargs.memory_limit_mb = 1
    /\ Len(config) = 1
    /\ config[1].similarity_threshold = ONE

\* ------------------------------------------- claims on merge's arguments

\* C15: for the edited Subset, the Subset and the Full Copy that were merged,
\* merge returns the same document whatever parseable document is passed as
\* `original`
C15_OriginalUnused ==
    pc = "done" =>
        \A original \in OriginalArgs :
            merge(edited_subset, subset, superset, original,
                  similarity_threshold, fuzz).soup = result

\* a merge that spliced an edit, so that its output is neither the Full Copy
\* nor the original
C15_Witness ==
    /\ pc = "done"
    /\ edits # << >>
    /\ result # original_html
    /\ result # superset

\* ------------------------------------------------ claims on the Subset

\* the element has a direct child that is a text run with non-whitespace
\* content, and its tag is none of the six that are never translated
TextBearing(e) ==
    /\ e.tag \notin {SCRIPT, STYLE, META, LINK, HEAD, TITLE}
    /\ \E i \in 1..Len(e.kids) : e.kids[i].k = "text" /\ strip(e.kids[i].s) # EMPTY

\* the Subset has an entry for the element of handle h
InSubset(h) == \E i \in 1..Len(subset) : subset[i].h = h

\* C16: an element gets an id in the Full Copy and an entry in the Subset if
\* and only if its tag is not one of script, style, meta, link, head, title
\* and one of its direct children is a text run with non-whitespace content;
\* text inside descendant elements does not count
C16_TextBearing ==
    Extracted =>
        LET full == find_all(superset)
        IN  \A i \in 1..Len(full) :
                /\ InSubset(full[i].h) <=> TextBearing(full[i])
                /\ TextBearing(full[i]) => GetAttr(full[i], ID) # EMPTY
                /\ ~TextBearing(full[i]) =>
                       full[i].attrs = TagAt(original_html, full[i].h).attrs

\* the text runs at and below n, in document order
RECURSIVE TextRuns(_)
TextRuns(n) ==
    IF n.k = "text" THEN <<n.s>>
    ELSE IF n.k = "comment" THEN << >>
    ELSE Flatten([i \in 1..Len(n.kids) |-> TextRuns(n.kids[i])])

\* the direct text runs of e and the texts of its child elements, stripped,
\* the empty ones left out, joined by single spaces
FlattenedText(e) ==
    LET runs == Flatten([i \in 1..Len(e.kids) |-> TextRuns(e.kids[i])])
    IN  join(NonEmpty([i \in 1..Len(runs) |-> strip(runs[i])]))

\* C17: the Subset holds exactly one element per text-bearing element of the
\* Full Copy, in document order, with that element's tag name and id and,
\* as content, its direct text runs and its child elements' texts joined by
\* single spaces
C17_SubsetShape ==
    Extracted =>
        LET bearing == SelectSeq(find_all(superset), TextBearing)
        IN  /\ Len(subset) = Len(bearing)
            /\ \A i \in 1..Len(subset) :
                   i <= Len(bearing) =>
                       /\ subset[i].h = bearing[i].h
                       /\ subset[i].tag = bearing[i].tag
                       /\ GetAttr(subset[i], ID) = GetAttr(bearing[i], ID)
                       /\ subset[i].text = FlattenedText(bearing[i])

\* ------------------------------------------- claims on the generator's life

\* the calls since construction or the last reset, up to and with call k
SinceReset(k) ==
    LET resets == {j \in 1..k : log[j].op = "reset"}
        from == IF resets = {} THEN 1
                ELSE (CHOOSE j \in resets : \A r \in resets : r <= j) + 1
    IN  from..k

GenerateCalls(k) == {j \in SinceReset(k) : log[j].op = "generate_id"}

\* the ids generated or registered since construction or the last reset
IdsSince(k) ==
    {log[j].id : j \in {i \in SinceReset(k) :
                           log[i].op \in {"generate_id", "register_existing_id"}}}

\* what C18 says of used_ids_count, of reset, and of the two calls that
\* change nothing
StatsRest(k) ==
    /\ stats(log[k].post).used_ids_count = Cardinality(IdsSince(k))
    /\ log[k].op = "reset" => stats(log[k].post) = [counter |-> 0, used_ids_count |-> 0]
    /\ log[k].op = "stats" => log[k].post = log[k].pre
    /\ (log[k].op = "register_existing_id" /\ log[k].id \in log[k].pre.used) =>
           log[k].post = log[k].pre

\* C18: after every call stats.counter is the number of generate_id calls
\* and stats.used_ids_count the number of distinct ids generated or
\* registered since construction or the last reset; after reset both are 0;
\* reading stats and registering an id already present change nothing
C18_Original ==
    \A k \in 1..Len(log) :
        /\ stats(log[k].post).counter = Cardinality(GenerateCalls(k))
        /\ StatsRest(k)

\* C18 (amended): stats.counter is at least the number of generate_id calls
\* since construction or the last reset, and is that number when no id of
\* the minted shape was registered in that time; the rest as claimed
C18_Stats ==
    \A k \in 1..Len(log) :
        /\ stats(log[k].post).counter >= Cardinality(GenerateCalls(k))
        /\ (\A j \in SinceReset(k) :
               log[j].op = "register_existing_id" => ~is_generated_id(log[j].id)) =>
               stats(log[k].post).counter = Cardinality(GenerateCalls(k))
        /\ StatsRest(k)

\* a generator that generated, was handed an id it already had, was reset
\* and generated again
C18_Witness ==
    /\ Len(log) = 4
    /\ log[1].op = "generate_id"
    /\ log[2].op = "register_existing_id" /\ log[2].post = log[2].pre
    /\ log[3].op = "reset"
    /\ log[4].op = "generate_id"

\* ----------------------------------------------- claims on the rendering

\* the digits of base 36 in order of value: 0-9, then lowercase a-z
Alphabet36 ==
    <<"0", "1", "2", "3", "4", "5", "6", "7", "8", "9",
      "a", "b", "c", "d", "e", "f", "g", "h", "i", "j", "k", "l", "m",
      "n", "o", "p", "q", "r", "s", "t", "u", "v", "w", "x", "y", "z">>

\* the number a string of such digits denotes, most significant digit first;
\* -1 when a character is no digit
RECURSIVE Denotes(_)
Denotes(s) ==
    IF s = << >> THEN 0
    ELSE LET last == s[Len(s)]
             value == {v \in 0..35 : Alphabet36[v + 1] = last}
             front == Denotes(SubSeq(s, 1, Len(s) - 1))
         IN  IF value = {} \/ front < 0 THEN -1
             ELSE 36 * front + (CHOOSE v \in value : TRUE)

\* C19: the rendering uses the digits 0-9 then a-z, most significant first
\* and without padding; 0, 1, 35, 36 and 1295 come out as "0", "1", "z",
\* "10" and "zz"; no two numbers come out the same
C19_Base36 ==
    rendered # << >> =>
        /\ rendered[1] # << >>
        /\ Denotes(rendered[1]) = number
        /\ Len(rendered[1]) > 1 => rendered[1][1] # "0"
        /\ number = 0 => rendered[1] = <<"0">>
        /\ number = 1 => rendered[1] = <<"1">>
        /\ number = 35 => rendered[1] = <<"z">>
        /\ number = 36 => rendered[1] = <<"1", "0">>
        /\ number = 1295 => rendered[1] = <<"z", "z">>
        /\ \A other \in 0..MaxCounter :
               other # number => to_base36(other) # rendered[1]

\* the first number of two digits has been rendered
C19_Witness == number = 36 /\ rendered = <<(<<"1", "0">>)>>

\* ------------------------------------------- claims on the stages of merge

IsPrefix(s, t) == Len(s) <= Len(t) /\ s = SubSeq(t, 1, Len(s))

AllStages == <<"parse", "match", "escalate", "splice", "cleanup", "serialize">>

NoEscalation == <<"parse", "match", "splice", "cleanup", "serialize">>

\* C20: a merge call enters parse, match, escalation if any, splice, cleanup
\* and serialization in that order, each at most once; it has an output
\* only once all of them are done; a call that raised did so in the stage
\* it entered last, went no further, and has no output
C20_StageOrder ==
    /\ IsPrefix(stages, AllStages) \/ IsPrefix(stages, NoEscalation)
    /\ pc = "returned" <=> stages \in {AllStages, NoEscalation}
    /\ pc = "returned" <=> result # << >>
    /\ unparseable # "" => IsPrefix(stages, <<"parse">>)
    /\ pc = "raised" =>
           /\ result = << >>
           /\ \/ stages = <<"parse">> /\ unparseable # ""
              \/ stages = <<"parse", "match", "escalate">>

\* a call that went through all six stages, the resolver pairing a record
C20_Witness ==
    /\ pc = "returned"
    /\ stages = AllStages
    /\ llm_matches # matches
    /\ result # superset

\* what validate_html was called on, seen from outside
ParseFails == ~backend.available \/ (content.kind = "other" /\ backend.rejects)

BracketsDiffer == count(content.text, "<") # count(content.text, ">")

LacksDoctype == ~StartsWith(lower(strip(content.text)), DOCTYPE)

EmptyTree == ~(HasStartTag(content.text) \/ backend.wraps)

\* C21: validate_html never raises; on a str that parses, a missing doctype
\* alone gives exactly the warning issue with is_valid true, mismatched bracket
\* counts or an empty element tree give their issue with is_valid false, and a
\* content with none of the three gives no issue with is_valid true; a parse
\* failure gives (False, [parsing error]).
C21_ValidateReturns ==
    verdict # << >> =>
        LET r == verdict[1]
            has(issue) == \E k \in 1..Len(r.issues) : r.issues[k] = issue
        IN  /\ ~r.raised
            /\ ParseFails => ~r.is_valid /\ r.issues = <<PARSING_ERROR>>
            /\ ~ParseFails /\ content.kind = "str" =>
                /\ BracketsDiffer <=> has(MISMATCHED)
                /\ EmptyTree <=> has(NO_ELEMENTS)
                /\ LacksDoctype <=> has(NO_DOCTYPE)
                /\ ~has(PARSING_ERROR)
                /\ r.is_valid <=> ~BracketsDiffer /\ ~EmptyTree
                /\ LacksDoctype /\ ~BracketsDiffer /\ ~EmptyTree =>
                       r.is_valid /\ r.issues = <<NO_DOCTYPE>>

\* a str with nothing wrong but its missing doctype was validated
C21_Witness ==
    /\ verdict # << >>
    /\ content.kind = "str"
    /\ ~ParseFails /\ LacksDoctype /\ ~BracketsDiffer /\ ~EmptyTree
    /\ verdict[1].is_valid

\* the unclaimed originals that score at least the threshold against edited i
Candidates(i) ==
    {j \in (1..Len(original_elements)) \ ClaimedBefore(i) :
        Score(i, j) >= similarity_threshold}

\* the candidate of maximal score and, among those, of smallest index
Preferred(i) ==
    CHOOSE j \in Candidates(i) :
        \A k \in Candidates(i) :
            Score(i, k) < Score(i, j) \/ (Score(i, k) = Score(i, j) /\ j <= k)

\* C22: every edited element is paired with its unclaimed original of maximal
\* similarity among those scoring at least the threshold, the earliest of them
\* on equal scores, with that score as confidence; its record is (edited, None,
\* 0.0) only when no unclaimed original scores at least the threshold.
C22_GreedyChoice ==
    pc = "matched" =>
        \A i \in 1..Len(edited_elements) :
            IF Candidates(i) = {}
            THEN matches[i].o = 0 /\ matches[i].conf = 0
            ELSE /\ matches[i].o = Preferred(i)
                 /\ matches[i].conf = Score(i, Preferred(i))

\* the attribute name-to-value mapping of an element, the order left out
AttrMapping(e) == {<<e.attrs[i][1], e.attrs[i][2]>> : i \in 1..Len(e.attrs)}

\* two elements agree on tag name, attribute mapping and normalized text
SameContent(e1, e2) ==
    /\ e1.tag = e2.tag
    /\ AttrMapping(e1) = AttrMapping(e2)
    /\ join(split(e1.text)) = join(split(e2.text))

ShareId(e1, e2) == GetAttr(e1, ID) # EMPTY /\ GetAttr(e1, ID) = GetAttr(e2, ID)

\* C23: for the pair handed to match_elements, agreement on tag name,
\* attribute mapping and normalized text gives equal content hashes and,
\* without a shared non-empty id, similarity exactly 0.95; a shared non-empty
\* id gives similarity exactly 1.0 whatever the content.
C23_HashContent ==
    pc = "matched" =>
        \A i \in 1..Len(edited_elements), j \in 1..Len(original_elements) :
            LET e1 == edited_elements[i]
                e2 == original_elements[j]
            IN  /\ SameContent(e1, e2) =>
                    /\ _get_content_hash(e1) = _get_content_hash(e2)
                    /\ ~ShareId(e1, e2) => Score(i, j) = HashMatchScore
                /\ ShareId(e1, e2) => Score(i, j) = ONE

\* ------------------------------------------------- claims on stale hashes

\* C24: every hash _get_content_hash returned for an element is the hash
\* computed from the tag, attributes and text the element had at that call.
C24_FreshHash ==
    \A k \in 1..Len(results) : results[k].hash = _get_content_hash(results[k].el)

\* ------------------------------------------------- claims on the splice

\* the turns of the splice that found their element in the Full Copy; the
\* element as the turn found it and as the turn left it
Found(k) == stages[k].h # 0

Before(k) == TagAt(stages[k].before, stages[k].h)

After(k) == TagAt(stages[k].after, stages[k].h)

\* the child elements of an element, in order
ChildTags(e) == SelectSeq(e.kids, IsTag)

RECURSIVE IsSubsequence(_, _)
IsSubsequence(s, t) ==
    IF s = << >> THEN TRUE
    ELSE IF t = << >> THEN FALSE
    ELSE IF Head(s) = Head(t) THEN IsSubsequence(Tail(s), Tail(t))
    ELSE IsSubsequence(s, Tail(t))

\* C25: a turn that splices a non-empty new text leaves the target its tag
\* and attributes, keeps of its children only child elements, in their order
\* and every one without an id among them, none of its former strings, and
\* puts the new text in as first child; a turn whose new text is empty leaves
\* the whole tree as it was.
C25_SpliceFrame ==
    \A k \in 1..Len(stages) :
        Found(k) =>
            IF stages[k].new_text = EMPTY
            THEN stages[k].after = stages[k].before
            ELSE /\ After(k).tag = Before(k).tag
                 /\ After(k).attrs = Before(k).attrs
                 /\ After(k).kids # << >>
                 /\ Head(After(k).kids) = NavigableString(stages[k].new_text)
                 /\ \A i \in 2..Len(After(k).kids) : IsTag(After(k).kids[i])
                 /\ IsSubsequence(Tail(After(k).kids), ChildTags(Before(k)))
                 /\ \A i \in 1..Len(Before(k).kids) :
                        (IsTag(Before(k).kids[i]) /\ GetAttr(Before(k).kids[i], ID) = EMPTY)
                            => \E j \in 2..Len(After(k).kids) :
                                   After(k).kids[j] = Before(k).kids[i]
                 /\ stages[k].after =
                        ReplaceAt(stages[k].before, stages[k].h, After(k))

\* a merge in whose splice one turn took the strings out of an element that
\* kept a child element, and another turn met an empty new text
C25_Witness ==
    /\ pc = "spliced"
    /\ \E k \in 1..Len(stages) :
        /\ Found(k) /\ stages[k].new_text # EMPTY
        /\ Len(After(k).kids) >= 2
        /\ \E i \in 1..Len(Before(k).kids) : IsString(Before(k).kids[i])
        /\ stages[k].after # stages[k].before
    /\ \E k \in 1..Len(stages) : Found(k) /\ stages[k].new_text = EMPTY

\* the id-to-record index of the splice
ById == match_by_id(llm_matches, edited_elements, original_elements)

\* the direct child elements of the element turn k spliced that carry an id
IdChildren(k) ==
    {c \in Range(ChildTags(Before(k))) : GetAttr(c, ID) # EMPTY}

\* the child is gone from the tree after turn k
RemovedAt(k, c) == c.h \notin Handles(stages[k].after)

\* the edited counterpart of a child: the edited side of the record filed
\* under its id, 0 if there is none
EditedOf(c) ==
    IF GetAttr(c, ID) \in DOMAIN ById THEN ById[GetAttr(c, ID)].e ELSE 0

\* the text of the child in the Full Copy as extract returned it
FullCopyText(c) == _extract_text_content(TagAt(parse(superset), c.h))

\* the entries of a Subset that stand for the child: those of its handle
OwnEntry(seq, c) == {i \in 1..Len(seq) : seq[i].h = c.h}

\* the child's own text in the edited Subset differs from its baseline text
TextEdited(c) ==
    \E i \in OwnEntry(edited_subset, c), j \in OwnEntry(subset, c) :
        SubsetText(edited_subset[i]) # SubsetText(subset[j])

\* the removal rule for the children whose record has an edited counterpart:
\* removed exactly when the counterpart's text equals the child's Full Copy
\* text, that text is not empty and its lowercased form does not occur in
\* the lowercased new text
RemovalRule ==
    \A k \in 1..Len(stages) :
        (Found(k) /\ stages[k].new_text # EMPTY) =>
            \A c \in IdChildren(k) :
                EditedOf(c) # 0 =>
                    (RemovedAt(k, c) <=>
                        /\ SubsetText(edited_elements[EditedOf(c)]) = FullCopyText(c)
                        /\ FullCopyText(c) # EMPTY
                        /\ ~Contains(lower(stages[k].new_text),
                                     lower(FullCopyText(c))))

\* C26: in a turn that splices a non-empty new text, a direct child with an id
\* whose record has an edited counterpart is removed exactly when the
\* counterpart's text equals the child's Full Copy text, that text is not
\* empty and its lowercased form does not occur in the lowercased new text;
\* and a child whose text was changed in the edited Subset is never removed.
C26_ChildRemoval ==
    /\ RemovalRule
    /\ \A k \in 1..Len(stages) :
           (Found(k) /\ stages[k].new_text # EMPTY) =>
               \A c \in IdChildren(k) :
                   (EditedOf(c) # 0 /\ TextEdited(c)) => ~RemovedAt(k, c)

\* C28: a turn of the splice removes a child of the element it splices only
\* if that child has an entry in the baseline Subset; a child with an id that
\* is not text-bearing, and so has no entry and no record, stays.
C28_RemovesOnlyCounterparts ==
    \A k \in 1..Len(stages) :
        Found(k) =>
            \A c \in Range(ChildTags(Before(k))) :
                RemovedAt(k, c) => OwnEntry(subset, c) # {}

\* ------------------------------------- claims on escalation and the splice

\* the records _apply_llm_resolution promoted: edited-only as the matcher
\* left them, two-sided as the splice gets them
Promoted == {k \in 1..Len(llm_matches) : matches[k].o = 0 /\ llm_matches[k].o # 0}

\* C27: once _apply_llm_resolution has returned, no baseline element of a
\* promoted record is also in a baseline-only record; the id-to-record index
\* files the promoted record under that element's id; and no turn of the
\* splice removes the Full Copy element of that id.
C27_PromotedOnce ==
    pc \in {"escalated", "splicing", "spliced"} =>
        \A k \in Promoted :
            LET o == llm_matches[k].o
                id == GetAttr(original_elements[o], ID)
            IN  /\ \A l \in 1..Len(llm_matches) : l # k => llm_matches[l].o # o
                /\ id # EMPTY =>
                    /\ ById[id] = llm_matches[k]
                    /\ \A t \in 1..Len(stages) :
                           Found(t) =>
                               \A c \in IdChildren(t) :
                                   c.h = original_elements[o].h => ~RemovedAt(t, c)

\* no id occurs twice in the list
IdsUnique(elements) ==
    \A i, j \in 1..Len(elements) :
        (i # j /\ GetAttr(elements[i], ID) # EMPTY)
            => GetAttr(elements[i], ID) # GetAttr(elements[j], ID)

\* C29: when no id occurs twice in either list, an edited element and an
\* original carrying the same non-empty id are paired with each other, with
\* confidence 1.0, at every threshold.
C29_IdPairsFirst ==
    (pc = "matched" /\ IdsUnique(edited_elements) /\ IdsUnique(original_elements)) =>
        \A i \in 1..Len(edited_elements), j \in 1..Len(original_elements) :
            ShareId(edited_elements[i], original_elements[j])
                => matches[i].o = j /\ matches[i].conf = ONE

\* the largest value of the weighted composite: 0.2 + 0.1
CompositeMax == (3 * Scale) \div 10

====
